---- MODULE Spec2Model ----
(***************************************************************************)
(* kdev: download, verify, cache and exec pinned tool binaries.            *)
(*                                                                         *)
(* The model covers internal/tool: the launcher (Tool.Exec, prepareExec),  *)
(* the downloader (Tool.download, fetchChecksum, extractTarGzFile), the    *)
(* path resolver (DataDir) and the cache index (CachedVersions,            *)
(* compareVersions), over a POSIX-like filesystem of names and inodes.     *)
(***************************************************************************)
EXTENDS Integers, Sequences, FiniteSets, TLC

VARIABLES
    env,      \* process environment: XDG_DATA_HOME, HOME, the ProgressWriter
    toolName, \* Tool.Name of the tool the invocations are for
    fsys,     \* the filesystem's names: path -> [dir, ino]
    inodes,   \* the filesystem's files: inode number -> [data, mode]
    proc,     \* one record per invocation (process): position and locals
    hist,     \* summary of the last finished sequential invocation
    listing,  \* input and output of the last CachedVersions call
    registry, \* Registry.tools: name -> Tool
    cmd       \* the last cache or registry operation: arguments and outcome

vars == <<env, toolName, fsys, inodes, proc, hist, listing, registry, cmd>>

----------------------------------------------------------------------------
(* Bounds of the model.                                                    *)

MaxLen == 2       \* longest plain content the server serves, in bytes
MaxArgs == 2      \* longest forwarded argument list
MaxDirs == 3      \* most entries of a tool directory in a listing
MaxBody == 4      \* longest checksum document handed to fetchChecksum alone

----------------------------------------------------------------------------
(* Bytes, contents and the archive format.                                 *)

Bytes == {1, 2}    \* a file reads 0 where nothing was written (a hole)

\* A gzip+tar stream in miniature: the magic byte, then for each entry a
\* name byte, a length byte and that many data bytes.
GzMagic == 9
NameTool == 7     \* an entry whose base name equals the tool name
NameOther == 8    \* any other entry

PlainContents == UNION {[1..n -> Bytes] : n \in 0..MaxLen}

EncodeEntry(e) == <<e.name, Len(e.data)>> \o e.data

RECURSIVE EncodeEntries(_)
EncodeEntries(es) ==
    IF es = <<>> THEN <<>> ELSE EncodeEntry(Head(es)) \o EncodeEntries(Tail(es))

TarGz(es) == <<GzMagic>> \o EncodeEntries(es)

ArchiveContents ==
    { TarGz(<<>>),
      TarGz(<<[name |-> NameTool, data |-> <<1>>]>>),
      TarGz(<<[name |-> NameOther, data |-> <<2>>]>>),
      TarGz(<<[name |-> NameOther, data |-> <<2>>], [name |-> NameTool, data |-> <<1>>]>>),
      TarGz(<<[name |-> NameTool, data |-> <<2>>], [name |-> NameTool, data |-> <<1>>]>>),
      <<GzMagic, NameTool, 2, 1>> }       \* truncated inside an entry

Drop(s, n) == SubSeq(s, n + 1, Len(s))
Take(s, n) == SubSeq(s, 1, n)

----------------------------------------------------------------------------
(* Strings the model has to look inside are sequences of characters.       *)

Str(c) == <<c>>
WS == {" ", "\n", "\t"}

\* sha256 + fmt.Sprintf("%x"): an injective map from contents to one
\* lowercase hex word; a hex "character" carries the content it digests.
HexChar(c) == [ch |-> "hex", of |-> c]
Chr(c) == [ch |-> c, of |-> <<>>]
Sha256Hex(c) == <<HexChar(c)>>

IsSpace(x) == x.ch \in WS

RECURSIVE TrimLeft(_)
TrimLeft(s) == IF s # <<>> /\ IsSpace(Head(s)) THEN TrimLeft(Tail(s)) ELSE s

RECURSIVE TrimRight(_)
TrimRight(s) ==
    IF s # <<>> /\ IsSpace(s[Len(s)]) THEN TrimRight(Take(s, Len(s) - 1)) ELSE s

TrimSpace(s) == TrimRight(TrimLeft(s))

RECURSIVE FirstWord(_)
FirstWord(s) ==
    IF s = <<>> \/ IsSpace(Head(s)) THEN <<>> ELSE <<Head(s)>> \o FirstWord(Tail(s))

\* strings.Fields: the maximal runs of non-space characters
RECURSIVE Fields(_)
Fields(s) ==
    LET t == TrimLeft(s) IN
    IF t = <<>> THEN <<>>
    ELSE LET w == FirstWord(t) IN <<w>> \o Fields(Drop(t, Len(w)))

----------------------------------------------------------------------------
(* Tool descriptors (Config): name and URL strategies.                     *)

GOOS == "linux"
GOARCH == "amd64"

Tools == {"kubectl", "kind", "cilium"}

\* URLs are sequences of pieces; the version is one piece.
kubectlDownloadURL(version, goos, goarch) ==
    <<"https://dl.k8s.io/release/", version, "/bin/", goos, "/", goarch, "/kubectl">>

kubectlChecksumURL(version, goos, goarch) ==
    kubectlDownloadURL(version, goos, goarch) \o <<".sha256">>

kindDownloadURL(version, goos, goarch) ==
    <<"https://github.com/kubernetes-sigs/kind/releases/download/", version,
      "/kind-", goos, "-", goarch>>

kindChecksumURL(version, goos, goarch) ==
    kindDownloadURL(version, goos, goarch) \o <<".sha256sum">>

ciliumDownloadURL(version, goos, goarch) ==
    <<"https://github.com/cilium/cilium-cli/releases/download/", version,
      "/cilium-", goos, "-", goarch, ".tar.gz">>

ciliumChecksumURL(version, goos, goarch) ==
    ciliumDownloadURL(version, goos, goarch) \o <<".sha256sum">>

DownloadURL(t, version, goos, goarch) ==
    CASE t = "kubectl" -> kubectlDownloadURL(version, goos, goarch)
      [] t = "kind" -> kindDownloadURL(version, goos, goarch)
      [] t = "cilium" -> ciliumDownloadURL(version, goos, goarch)

ChecksumURL(t, version, goos, goarch) ==
    CASE t = "kubectl" -> kubectlChecksumURL(version, goos, goarch)
      [] t = "kind" -> kindChecksumURL(version, goos, goarch)
      [] t = "cilium" -> ciliumChecksumURL(version, goos, goarch)

\* strings.HasSuffix(url, ".tar.gz")
HasSuffixTarGz(url) == url # <<>> /\ url[Len(url)] = ".tar.gz"

----------------------------------------------------------------------------
(* The filesystem: names (fsys) and files (inodes), as the OS keeps them.  *)
(* A path is the sequence of its components.                               *)

DirNode == [dir |-> TRUE, ino |-> 0]
FileNode(i) == [dir |-> FALSE, ino |-> i]

Mode0755 == 493
Mode0644 == 420   \* os.Create's 0666 under the usual umask 022

\* filepath.Clean on the components: "" and "." drop out, ".." takes the
\* component before it away (the first component is the rooted prefix)
RECURSIVE CleanPath(_, _)
CleanPath(done, rest) ==
    IF rest = <<>> THEN done
    ELSE IF rest[1] \in {"", "."} THEN CleanPath(done, Tail(rest))
    ELSE IF rest[1] = ".."
    THEN CleanPath(IF Len(done) > 1 THEN SubSeq(done, 1, Len(done) - 1) ELSE done, Tail(rest))
    ELSE CleanPath(Append(done, rest[1]), Tail(rest))

\* filepath.Join: the elements joined, then cleaned (Clean leaves a path
\* without "", "." and ".." as it is)
Join(a, b) ==
    LET joined == a \o b
    IN IF \A i \in DOMAIN joined : joined[i] \notin {"", ".", ".."} THEN joined
       ELSE CleanPath(<<>>, joined)
Dir(path) == Take(path, Len(path) - 1)     \* filepath.Dir
Prefixes(path) == {Take(path, n) : n \in 1..Len(path)}

\* FSHelper.Exists: Stat succeeds and the path is no directory
Exists(f, path) == path \in DOMAIN f /\ ~f[path].dir

\* FSHelper.IsDir: Stat succeeds and the path is a directory
IsDir(f, path) == path \in DOMAIN f /\ f[path].dir

\* fs.MkdirAll: fails when a component is a regular file
MkdirAllOk(f, path) == \A q \in Prefixes(path) : ~Exists(f, q)

MkdirAll(f, path) ==
    [q \in DOMAIN f \cup Prefixes(path) |-> IF q \in DOMAIN f THEN f[q] ELSE DirNode]

\* fs.Create = open(O_RDWR|O_CREATE|O_TRUNC): needs the parent directory,
\* truncates the file a name already has, else makes a new file
CreateOk(f, path) == IsDir(f, Dir(path)) /\ ~IsDir(f, path)

FreshIno(ino) == CHOOSE i \in 1..(Cardinality(DOMAIN ino) + 1) : i \notin DOMAIN ino

CreateIno(f, ino, path) == IF Exists(f, path) THEN f[path].ino ELSE FreshIno(ino)

CreateNames(f, ino, path) ==
    IF Exists(f, path) THEN f
    ELSE [q \in DOMAIN f \cup {path} |-> IF q = path THEN FileNode(FreshIno(ino)) ELSE f[q]]

CreateFiles(f, ino, path) ==
    IF Exists(f, path) THEN [ino EXCEPT ![f[path].ino].data = <<>>]
    ELSE [i \in DOMAIN ino \cup {FreshIno(ino)} |->
            IF i \in DOMAIN ino THEN ino[i] ELSE [data |-> <<>>, mode |-> Mode0644]]

\* write(2) at an offset: the file grows, a gap before the offset reads 0
WriteAt(data, off, chunk) ==
    LET end == off + Len(chunk)
        n == IF Len(data) > end THEN Len(data) ELSE end
    IN [i \in 1..n |-> IF i > off /\ i <= end THEN chunk[i - off]
                        ELSE IF i <= Len(data) THEN data[i] ELSE 0]

\* fs.Rename of a file: atomic replace of the new name
RenameOk(f, old, new) == Exists(f, old) /\ IsDir(f, Dir(new)) /\ ~IsDir(f, new)

Rename(f, old, new) ==
    [q \in (DOMAIN f \ {old}) \cup {new} |-> IF q = new THEN f[old] ELSE f[q]]

\* fs.Remove of a file
RemoveOk(f, path) == Exists(f, path)

Remove(f, path) == [q \in DOMAIN f \ {path} |-> f[q]]

\* fs.Chmod
ChmodOk(f, path) == path \in DOMAIN f

\* Files no name and no open descriptor refers to are gone.
Referenced(f, pr) ==
    {f[q].ino : q \in {q \in DOMAIN f : ~f[q].dir}} \cup {pr[p].fd : p \in DOMAIN pr}

Collect(ino, f, pr) == [i \in DOMAIN ino \cap Referenced(f, pr) |-> ino[i]]

\* the bytes of the regular file at a path
DataAt(f, ino, path) == ino[f[path].ino].data
ModeAt(f, ino, path) == ino[f[path].ino].mode

----------------------------------------------------------------------------
(* Path resolver.                                                          *)

NoDir == <<>>      \* the "" DataDir returns with an error

\* DataDir: XDG_DATA_HOME, else ~/.local/share when it is a directory,
\* else ~/.kdev; an error when the home directory is unknown
DataDirErr(e, f) == e.xdg = "" /\ e.home = ""

\* mutant: ~/.local/share is looked at before XDG_DATA_HOME
DataDir_shareFirst(e, f) ==
    IF e.home # "" /\ IsDir(f, <<e.home, ".local", "share">>) THEN <<e.home, ".local", "share">>
    ELSE IF e.xdg # "" THEN <<e.xdg>>
    ELSE IF e.home = "" THEN NoDir
    ELSE <<e.home, ".kdev">>

DataDir(e, f) ==
    IF e.xdg # "" THEN <<e.xdg>>
    ELSE IF e.home = "" THEN NoDir
    ELSE IF IsDir(f, <<e.home, ".local", "share">>) THEN <<e.home, ".local", "share">>
    ELSE <<e.home, ".kdev">>

BinPath(dataDir, t, version) == Join(dataDir, <<"kdev", t, version, t>>)
TmpPath(destPath) == Join(Dir(destPath), <<destPath[Len(destPath)] \o ".tmp">>)

----------------------------------------------------------------------------
(* What the network and the caller can supply.                             *)

Procs == {1, 2}

UpstreamVersions == {"v1.2.3", "v1.2.10"}   \* what upstream may call the latest

StatusOK == 200
Statuses == {200, 404, 500}

\* bodies the binary URL may answer with
ServedContents(t) ==
    IF HasSuffixTarGz(DownloadURL(t, "", GOOS, GOARCH))
    THEN ArchiveContents \cup {<<1>>}
    ELSE PlainContents

\* bodies the checksum URL may answer with: the digest of some content,
\* bare, with a newline, in sha256sum's "digest  filename" form; nothing;
\* white space only; some other word
ChecksumBodies(contents) ==
    UNION { { Sha256Hex(c),
              Sha256Hex(c) \o <<Chr("\n")>>,
              Sha256Hex(c) \o <<Chr(" "), Chr(" "), Chr("f")>> } : c \in contents }
    \cup { <<>>, <<Chr(" "), Chr("\n")>>, <<Chr("d")>> }

ArgLists == {Take(<<"get", "pods", "-A", "-w">>, n) : n \in 0..MaxArgs}

NoExec == [path |-> <<>>, argv |-> <<>>]
Nil == <<>>    \* a nil error; an error is the chain of its wrapped messages

NoFile == [data |-> <<>>, mode |-> 0]

IdleProc ==
    [pc |-> "idle", op |-> "", cached |-> NoFile, args |-> <<>>, dataDir |-> <<>>, version |-> "", binPath |-> <<>>,
     expected |-> <<>>, served |-> <<>>, stream |-> <<>>, hashed |-> <<>>,
     status |-> 0, fd |-> 0, off |-> 0, ret |-> Nil, err |-> Nil, trace |-> <<>>,
     execd |-> NoExec, hit |-> FALSE, short |-> FALSE]

NoHist == [version |-> "", ok |-> FALSE, hit |-> FALSE, gets |-> 0]
NoListing == [called |-> FALSE, err |-> Nil, versions |-> <<>>]

\* NewRegistry: the tools map
NewRegistry == [name \in {"kubectl", "kind"} |-> [Name |-> name]]

NoTool == [Name |-> ""]    \* the nil *Tool
NoCmd ==
    [op |-> "", args |-> <<>>, old |-> FALSE, err |-> Nil, out |-> <<>>,
     printed |-> <<>>, fs0 |-> <<>>, ino0 |-> <<>>]

Range(s) == {s[i] : i \in DOMAIN s}
Count(s, x) == Cardinality({i \in DOMAIN s : s[i] = x})

----------------------------------------------------------------------------
(* fetchChecksum: the first field of the trimmed body, or the empty string *)

\* mutant: the trimmed body as it is, no strings.Fields
fetchChecksum_wholeBody(body) == TrimSpace(body)

fetchChecksum(body) ==
    LET checksumStr == TrimSpace(body)
        parts == Fields(checksumStr)
    IN IF Len(parts) > 0 THEN parts[1] ELSE checksumStr

\* fmt.Sprintf("%d", n) for n >= 0
DecimalDigits == <<"0", "1", "2", "3", "4", "5", "6", "7", "8", "9">>

RECURSIVE Itoa(_)
Itoa(n) ==
    IF n < 10 THEN DecimalDigits[n + 1]
    ELSE Itoa(n \div 10) \o DecimalDigits[(n % 10) + 1]

\* what client.Do hands back: an error, or a response
TransportError == [failed |-> TRUE, cause |-> "transport error", status |-> 0, body |-> <<>>]
ContextCanceled == [failed |-> TRUE, cause |-> "context canceled", status |-> 0, body |-> <<>>]
Response(status, body) == [failed |-> FALSE, cause |-> "", status |-> status, body |-> body]

\* fetchHTTPContent: the body of a 200 response, an error else
fetchHTTPContent(resp) ==
    IF resp.failed THEN [data |-> <<>>, err |-> <<resp.cause>>]
    ELSE IF resp.status # StatusOK
    THEN [data |-> <<>>, err |-> <<"unexpected status code: " \o Itoa(resp.status)>>]
    ELSE [data |-> resp.body, err |-> Nil]

\* fetchChecksum from the response on: the checksum and the error
fetchChecksumFrom(resp) ==
    LET got == fetchHTTPContent(resp)
    IN IF got.err # Nil THEN [checksum |-> <<>>, err |-> got.err]
       ELSE [checksum |-> fetchChecksum(got.data), err |-> Nil]

\* the answers of a URL that serves one of bodies when it says 200
Responses(bodies) ==
    {Response(StatusOK, body) : body \in bodies}
       \cup {Response(status, <<>>) : status \in Statuses \ {StatusOK}}
       \cup {TransportError}

\* the caller has cancelled ctx
Cancelled == cmd.op = "cancel"

\* what client.Do(req) with ctx hands back: ctx.Err() once ctx is cancelled
Answers(bodies) == IF Cancelled THEN {ContextCanceled} ELSE Responses(bodies)

----------------------------------------------------------------------------
(* extractTarGzFile, reading side: gzip.NewReader and the tr.Next loop.    *)

RECURSIVE ScanTar(_)
ScanTar(s) ==
    IF s = <<>> THEN [res |-> "eof", data |-> <<>>, short |-> FALSE]
    ELSE IF Len(s) < 2 THEN [res |-> "tar", data |-> <<>>, short |-> FALSE]
    ELSE LET rest == Drop(s, 2) IN
         IF s[1] = NameTool
         THEN [res |-> "found",
               data |-> Take(rest, IF s[2] < Len(rest) THEN s[2] ELSE Len(rest)),
               short |-> Len(rest) < s[2]]
         ELSE IF Len(rest) < s[2] THEN [res |-> "tar", data |-> <<>>, short |-> FALSE]
         ELSE ScanTar(Drop(rest, s[2]))

\* mutant: the archive is taken for the binary
ReadArchive_noExtraction(bytes) == [res |-> "found", data |-> bytes, short |-> FALSE]

\* mutant: an archive without the binary yields an empty binary
ReadArchive_missingIsEmpty(bytes) ==
    IF bytes = <<>> \/ bytes[1] # GzMagic
    THEN [res |-> "gzip", data |-> <<>>, short |-> FALSE]
    ELSE IF ScanTar(Tail(bytes)).res = "eof"
    THEN [res |-> "found", data |-> <<>>, short |-> FALSE]
    ELSE ScanTar(Tail(bytes))

ReadArchive(bytes) ==
    IF bytes = <<>> \/ bytes[1] # GzMagic
    THEN [res |-> "gzip", data |-> <<>>, short |-> FALSE]
    ELSE ScanTar(Tail(bytes))

----------------------------------------------------------------------------
(* The launcher: Tool.Exec and Tool.prepareExec, one step per call.        *)

Goto(r, pc, ev) == [r EXCEPT !.pc = pc, !.trace = Append(@, ev)]
Fail(r, e, ev) == [r EXCEPT !.pc = "done", !.err = e, !.trace = Append(@, ev)]

\* Tool.Exec is entered; nothing reads args before execArgs is built, so
\* the model draws the forwarded arguments there
Exec(p) ==
    /\ proc[p].pc = "idle"
    /\ proc' = [proc EXCEPT ![p] = [IdleProc EXCEPT !.pc = "DataDir", !.op = "Exec"]]
    /\ UNCHANGED <<env, toolName, fsys, inodes, hist, listing, registry, cmd>>

\* Tool.Download is entered: the same steps up to the download; then chmod
\* comes before the second progress line, and a cache hit returns at once
Download(p) ==
    /\ proc[p].pc = "idle"
    /\ proc' = [proc EXCEPT ![p] = [IdleProc EXCEPT !.pc = "DataDir", !.op = "Download"]]
    /\ UNCHANGED <<env, toolName, fsys, inodes, hist, listing, registry, cmd>>

prepareExec_DataDir(p) ==
    /\ proc[p].pc = "DataDir"
    /\ proc' = [proc EXCEPT ![p] =
          IF DataDirErr(env, fsys)
          THEN Fail(@, <<"failed to determine data directory">>, "DataDir")
          ELSE [Goto(@, "VersionFunc", "DataDir") EXCEPT !.dataDir = DataDir(env, fsys)]]
    /\ UNCHANGED <<env, toolName, fsys, inodes, hist, listing, registry, cmd>>

\* mutant: with the binary of the latest version cached the version
\* strategy is not asked, so it cannot fail
prepareExec_VersionFunc_cachedSkips(p) ==
    /\ proc[p].pc = "VersionFunc"
    /\ \/ /\ ~Exists(fsys, BinPath(proc[p].dataDir, toolName, env.latest))
          /\ proc' = [proc EXCEPT ![p] = Fail(@, <<"failed to get version">>, "VersionFunc")]
       \/ proc' = [proc EXCEPT ![p] =
             [Goto(@, "Exists", IF Exists(fsys, BinPath(proc[p].dataDir, toolName, env.latest))
                                THEN "cached" ELSE "VersionFunc") EXCEPT
                 !.version = env.latest,
                 !.binPath = BinPath(proc[p].dataDir, toolName, env.latest)]]
    /\ UNCHANGED <<env, toolName, fsys, inodes, hist, listing, registry, cmd>>

prepareExec_VersionFunc(p) ==
    /\ proc[p].pc = "VersionFunc"
    /\ \/ proc' = [proc EXCEPT ![p] = Fail(@, <<"failed to get version">>, "VersionFunc")]
       \/ proc' = [proc EXCEPT ![p] =
             [Goto(@, "Exists", "VersionFunc") EXCEPT
                 !.version = env.latest,
                 !.binPath = BinPath(proc[p].dataDir, toolName, env.latest)]]
    /\ UNCHANGED <<env, toolName, fsys, inodes, hist, listing, registry, cmd>>

\* mutant: no cache check, every invocation downloads
prepareExec_Exists_neverCached(p) ==
    /\ proc[p].pc = "Exists"
    /\ proc' = [proc EXCEPT ![p] = Goto(@, "writeDownloading", "Exists")]
    /\ UNCHANGED <<env, toolName, fsys, inodes, hist, listing, registry, cmd>>

\* mutant: chmod only after a download, a cache hit goes straight to exec
prepareExec_Exists_hitSkipsChmod(p) ==
    /\ proc[p].pc = "Exists"
    /\ proc' = [proc EXCEPT ![p] =
          IF Exists(fsys, proc[p].binPath)
          THEN [Goto(@, IF proc[p].op = "Exec" THEN "syscallExec" ELSE "done", "Exists") EXCEPT
                    !.hit = TRUE,
                    !.cached = inodes[fsys[proc[p].binPath].ino]]
          ELSE Goto(@, "writeDownloading", "Exists")]
    /\ UNCHANGED <<env, toolName, fsys, inodes, hist, listing, registry, cmd>>

\* mutant: the version directory counts as the cached binary
prepareExec_Exists_dirCounts(p) ==
    /\ proc[p].pc = "Exists"
    /\ proc' = [proc EXCEPT ![p] =
          IF Exists(fsys, proc[p].binPath)
          THEN [Goto(@, IF proc[p].op = "Exec" THEN "Chmod" ELSE "done", "Exists") EXCEPT
                    !.hit = TRUE,
                    !.cached = inodes[fsys[proc[p].binPath].ino]]
          ELSE IF IsDir(fsys, Dir(proc[p].binPath))
          THEN [Goto(@, IF proc[p].op = "Exec" THEN "Chmod" ELSE "done", "Exists") EXCEPT
                    !.hit = TRUE]
          ELSE Goto(@, "writeDownloading", "Exists")]
    /\ UNCHANGED <<env, toolName, fsys, inodes, hist, listing, registry, cmd>>

prepareExec_Exists(p) ==
    /\ proc[p].pc = "Exists"
    /\ proc' = [proc EXCEPT ![p] =
          IF Exists(fsys, proc[p].binPath)
          THEN [Goto(@, IF proc[p].op = "Exec" THEN "Chmod" ELSE "done", "Exists") EXCEPT
                    !.hit = TRUE,
                    !.cached = inodes[fsys[proc[p].binPath].ino]]
          ELSE Goto(@, "writeDownloading", "Exists")]
    /\ UNCHANGED <<env, toolName, fsys, inodes, hist, listing, registry, cmd>>

\* writeProgress: nothing without a ProgressWriter, else the write may fail
writeProgress(p, msg, next) ==
    IF ~env.progress
    THEN proc' = [proc EXCEPT ![p].pc = next]
    ELSE \/ proc' = [proc EXCEPT ![p] = Goto(@, next, msg)]
         \/ proc' = [proc EXCEPT ![p] = Fail(@, <<"failed to write progress">>, msg)]

\* mutant: the directory of the binary is made before the first line is
\* written
prepareExec_writeDownloading_afterMkdir(p) ==
    /\ proc[p].pc = "writeDownloading"
    /\ writeProgress(p, "write Downloading", "MkdirAll")
    /\ fsys' = IF MkdirAllOk(fsys, Dir(proc[p].binPath))
               THEN MkdirAll(fsys, Dir(proc[p].binPath)) ELSE fsys
    /\ UNCHANGED <<env, toolName, inodes, hist, listing, registry, cmd>>

prepareExec_writeDownloading(p) ==
    /\ proc[p].pc = "writeDownloading"
    /\ writeProgress(p, "write Downloading", "MkdirAll")
    /\ UNCHANGED <<env, toolName, fsys, inodes, hist, listing, registry, cmd>>

prepareExec_writeDownloaded(p) ==
    /\ proc[p].pc = "writeDownloaded"
    /\ writeProgress(p, "write downloaded", IF proc[p].op = "Exec" THEN "Chmod" ELSE "done")
    /\ UNCHANGED <<env, toolName, fsys, inodes, hist, listing, registry, cmd>>

\* mutant: the error of fs.Chmod is dropped
prepareExec_Chmod_errIgnored(p) ==
    /\ proc[p].pc = "Chmod"
    /\ \/ /\ ChmodOk(fsys, proc[p].binPath)
          /\ inodes' = IF Exists(fsys, proc[p].binPath)
                       THEN [inodes EXCEPT ![fsys[proc[p].binPath].ino].mode = Mode0755]
                       ELSE inodes
       \/ UNCHANGED inodes
    /\ proc' = [proc EXCEPT ![p] =
          Goto(@, IF proc[p].op = "Exec" THEN "syscallExec" ELSE "writeDownloaded", "Chmod")]
    /\ UNCHANGED <<env, toolName, fsys, hist, listing, registry, cmd>>

prepareExec_Chmod(p) ==
    /\ proc[p].pc = "Chmod"
    /\ \/ /\ ChmodOk(fsys, proc[p].binPath)
          /\ inodes' = IF Exists(fsys, proc[p].binPath)
                       THEN [inodes EXCEPT ![fsys[proc[p].binPath].ino].mode = Mode0755]
                       ELSE inodes
          /\ proc' = [proc EXCEPT ![p] =
                Goto(@, IF proc[p].op = "Exec" THEN "syscallExec" ELSE "writeDownloaded", "Chmod")]
       \/ /\ proc' = [proc EXCEPT ![p] = Fail(@, <<"failed to make executable">>, "Chmod")]
          /\ UNCHANGED inodes
    /\ UNCHANGED <<env, toolName, fsys, hist, listing, registry, cmd>>

\* mutant: argv[0] forgotten
execArgs_argsOnly(name, args) == args

\* execArgs := append([]string{t.Name}, args...)
execArgs(name, args) == <<name>> \o args

\* syscall.Exec replaces the process image, or returns an error
Exec_syscall(p) ==
    /\ proc[p].pc = "syscallExec"
    /\ \E args \in ArgLists :
       LET call == [path |-> proc[p].binPath, argv |-> execArgs(toolName, args)] IN
       \/ proc' = [proc EXCEPT ![p] =
             [Goto(@, "replaced", "Exec") EXCEPT !.args = args, !.execd = call]]
       \/ proc' = [proc EXCEPT ![p] =
             [Fail(@, <<"exec failed">>, "Exec") EXCEPT !.args = args, !.execd = call]]
    /\ UNCHANGED <<env, toolName, fsys, inodes, hist, listing, registry, cmd>>

\* the invocation is over: the shell may start the next one
Return(p) ==
    /\ proc[p].pc \in {"done", "replaced"}
    /\ hist' = [version |-> proc[p].version,
                ok |-> proc[p].pc = "replaced" \/ proc[p].err = Nil,
                hit |-> proc[p].hit,
                gets |-> Count(proc[p].trace, "GET")]
    /\ proc' = [proc EXCEPT ![p] = IdleProc]
    /\ UNCHANGED <<env, toolName, fsys, inodes, listing, registry, cmd>>

----------------------------------------------------------------------------
(* Tool.download, one step per call that touches the disk or the network.  *)

\* download returns e before the temp file exists: prepareExec wraps it
Abort(r, e, ev) == [Fail(r, <<"failed to download">> \o e, ev) EXCEPT !.ret = e]

\* download returns e once the deferred fs.Remove(tmpFile) is registered
Unwind(r, e, ev) == [Goto(r, "defer", ev) EXCEPT !.ret = e, !.fd = 0]

isArchive(v) == HasSuffixTarGz(DownloadURL(toolName, v, GOOS, GOARCH))

\* mutant: the binary is requested first, the checksum document never
download_MkdirAll_thenGET(p) ==
    /\ proc[p].pc = "MkdirAll"
    /\ \/ /\ MkdirAllOk(fsys, Dir(proc[p].binPath))
          /\ fsys' = MkdirAll(fsys, Dir(proc[p].binPath))
          /\ proc' = [proc EXCEPT ![p] = Goto(@, "GET", "MkdirAll")]
       \/ /\ proc' = [proc EXCEPT ![p] = Abort(@, <<"failed to create directory">>, "MkdirAll")]
          /\ UNCHANGED fsys
    /\ UNCHANGED <<env, toolName, inodes, hist, listing, registry, cmd>>

download_MkdirAll(p) ==
    /\ proc[p].pc = "MkdirAll"
    /\ \/ /\ MkdirAllOk(fsys, Dir(proc[p].binPath))
          /\ fsys' = MkdirAll(fsys, Dir(proc[p].binPath))
          /\ proc' = [proc EXCEPT ![p] = Goto(@, "fetchChecksum", "MkdirAll")]
       \/ /\ proc' = [proc EXCEPT ![p] = Abort(@, <<"failed to create directory">>, "MkdirAll")]
          /\ UNCHANGED fsys
    /\ UNCHANGED <<env, toolName, inodes, hist, listing, registry, cmd>>

download_fetchChecksum(p) ==
    /\ proc[p].pc = "fetchChecksum"
    /\ \E resp \in Answers(env.sums) :
          LET r == fetchChecksumFrom(resp)
          IN proc' = [proc EXCEPT ![p] =
                IF r.err = Nil
                THEN [Goto(@, "GET", "fetchChecksum") EXCEPT !.expected = r.checksum]
                ELSE Abort(@, <<"failed to fetch checksum">> \o r.err, "fetchChecksum")]
    /\ UNCHANGED <<env, toolName, fsys, inodes, hist, listing, registry, cmd>>

\* mutant: resp.StatusCode is not looked at
download_GET_statusIgnored(p) ==
    /\ proc[p].pc = "GET"
    /\ \E resp \in Responses(env.serves) :
          proc' = [proc EXCEPT ![p] =
             IF resp.failed THEN Abort(@, <<"transport error">>, "GET")
             ELSE [Goto(@, "Create", "GET") EXCEPT
                      !.status = resp.status, !.served = resp.body, !.stream = resp.body]]
    /\ UNCHANGED <<env, toolName, fsys, inodes, hist, listing, registry, cmd>>

download_GET(p) ==
    /\ proc[p].pc = "GET"
    /\ \E resp \in Answers(env.serves) :
          proc' = [proc EXCEPT ![p] =
             IF resp.failed THEN Abort(@, <<resp.cause>>, "GET")
             ELSE IF resp.status # StatusOK
             THEN [Abort(@, <<"unexpected status code: " \o Itoa(resp.status)>>, "GET")
                      EXCEPT !.status = resp.status]
             ELSE [Goto(@, "Create", "GET") EXCEPT
                      !.status = resp.status, !.served = resp.body, !.stream = resp.body]]
    /\ UNCHANGED <<env, toolName, fsys, inodes, hist, listing, registry, cmd>>

\* mutant: the temp file is opened without O_TRUNC
download_Create_noTrunc(p) ==
    /\ proc[p].pc = "Create"
    /\ LET tmpFile == TmpPath(proc[p].binPath) IN
       \/ /\ CreateOk(fsys, tmpFile)
          /\ fsys' = CreateNames(fsys, inodes, tmpFile)
          /\ proc' = [proc EXCEPT ![p] =
                [Goto(@, "Copy", "Create") EXCEPT
                    !.fd = CreateIno(fsys, inodes, tmpFile), !.off = 0, !.hashed = <<>>]]
          /\ inodes' = Collect(IF Exists(fsys, tmpFile) THEN inodes
                               ELSE CreateFiles(fsys, inodes, tmpFile), fsys', proc')
       \/ /\ proc' = [proc EXCEPT ![p] = Abort(@, <<"create failed">>, "Create")]
          /\ UNCHANGED <<fsys, inodes>>
    /\ UNCHANGED <<env, toolName, hist, listing, registry, cmd>>

download_Create(p) ==
    /\ proc[p].pc = "Create"
    /\ LET tmpFile == TmpPath(proc[p].binPath) IN
       \/ /\ CreateOk(fsys, tmpFile)
          /\ fsys' = CreateNames(fsys, inodes, tmpFile)
          /\ proc' = [proc EXCEPT ![p] =
                [Goto(@, "Copy", "Create") EXCEPT
                    !.fd = CreateIno(fsys, inodes, tmpFile), !.off = 0, !.hashed = <<>>]]
          /\ inodes' = Collect(CreateFiles(fsys, inodes, tmpFile), fsys', proc')
       \/ /\ proc' = [proc EXCEPT ![p] = Abort(@, <<"create failed">>, "Create")]
          /\ UNCHANGED <<fsys, inodes>>
    /\ UNCHANGED <<env, toolName, hist, listing, registry, cmd>>

\* mutant: a failed copy returns past the deferred fs.Remove(tmpFile)
download_Copy_failLeavesTemp(p) ==
    /\ proc[p].pc = "Copy"
    /\ \/ /\ ~Cancelled
          /\ proc[p].stream # <<>>
          /\ inodes' = [inodes EXCEPT ![proc[p].fd].data =
                            WriteAt(@, proc[p].off, <<Head(proc[p].stream)>>)]
          /\ proc' = [proc EXCEPT ![p].stream = Tail(@),
                                  ![p].off = @ + 1,
                                  ![p].hashed = Append(@, Head(proc[p].stream))]
          /\ UNCHANGED fsys
       \/ /\ ~Cancelled
          /\ proc[p].stream = <<>>
          /\ proc' = [proc EXCEPT ![p] = Goto(@, "Close", "Copy")]
          /\ UNCHANGED <<fsys, inodes>>
       \/ /\ proc' = [proc EXCEPT ![p] =
                [Abort(@, <<IF Cancelled THEN "context canceled" ELSE "copy failed">>, "Copy")
                    EXCEPT !.fd = 0]]
          /\ inodes' = Collect(inodes, fsys, proc')
          /\ UNCHANGED fsys
    /\ UNCHANGED <<env, toolName, hist, listing, registry, cmd>>

\* io.Copy into io.MultiWriter(out, hasher), one byte per round; the read
\* of resp.Body fails once ctx is cancelled
download_Copy(p) ==
    /\ proc[p].pc = "Copy"
    /\ \/ /\ ~Cancelled
          /\ proc[p].stream # <<>>
          /\ inodes' = [inodes EXCEPT ![proc[p].fd].data =
                            WriteAt(@, proc[p].off, <<Head(proc[p].stream)>>)]
          /\ proc' = [proc EXCEPT ![p].stream = Tail(@),
                                  ![p].off = @ + 1,
                                  ![p].hashed = Append(@, Head(proc[p].stream))]
          /\ UNCHANGED fsys
       \/ /\ ~Cancelled
          /\ proc[p].stream = <<>>
          /\ proc' = [proc EXCEPT ![p] = Goto(@, "Close", "Copy")]
          /\ UNCHANGED <<fsys, inodes>>
       \/ /\ proc' = [proc EXCEPT ![p] =
                Unwind(@, <<IF Cancelled THEN "context canceled" ELSE "copy failed">>, "Copy")]
          /\ inodes' = Collect(inodes, fsys, proc')
          /\ UNCHANGED fsys
    /\ UNCHANGED <<env, toolName, hist, listing, registry, cmd>>

download_Close(p) ==
    /\ proc[p].pc = "Close"
    /\ \/ proc' = [proc EXCEPT ![p] = [Goto(@, "compare", "Close") EXCEPT !.fd = 0]]
       \/ proc' = [proc EXCEPT ![p] = Unwind(@, <<"close failed">>, "Close")]
    /\ inodes' = Collect(inodes, fsys, proc')
    /\ UNCHANGED <<env, toolName, fsys, hist, listing, registry, cmd>>

\* mutants: the comparison left out; the comparison inverted
checksumMatches_always(actual, expected) == TRUE
checksumMatches_inverted(actual, expected) == actual # expected

\* actualChecksum != expectedChecksum
checksumMatches(actual, expected) == actual = expected

download_compare(p) ==
    /\ proc[p].pc = "compare"
    /\ proc' = [proc EXCEPT ![p] =
          IF ~checksumMatches(Sha256Hex(proc[p].hashed), proc[p].expected)
          THEN Unwind(@, <<"checksum mismatch">>, "compare")
          ELSE IF isArchive(proc[p].version)
          THEN Goto(@, "extract", "compare")
          ELSE Goto(@, "Rename", "compare")]
    /\ UNCHANGED <<env, toolName, fsys, inodes, hist, listing, registry, cmd>>

download_Rename(p) ==
    /\ proc[p].pc = "Rename"
    /\ LET tmpFile == TmpPath(proc[p].binPath) IN
       \/ /\ RenameOk(fsys, tmpFile, proc[p].binPath)
          /\ fsys' = Rename(fsys, tmpFile, proc[p].binPath)
          /\ proc' = [proc EXCEPT ![p] = Unwind(@, Nil, "Rename")]
          /\ inodes' = Collect(inodes, fsys', proc')
       \/ /\ proc' = [proc EXCEPT ![p] = Unwind(@, <<"rename failed">>, "Rename")]
          /\ UNCHANGED <<fsys, inodes>>
    /\ UNCHANGED <<env, toolName, hist, listing, registry, cmd>>

\* mutant: no deferred fs.Remove(tmpFile)
download_defer_noRemove(p) ==
    /\ proc[p].pc = "defer"
    /\ proc' = [proc EXCEPT ![p] =
          IF proc[p].ret = Nil
          THEN Goto(@, IF proc[p].op = "Exec" THEN "writeDownloaded" ELSE "Chmod", "Remove")
          ELSE Fail(@, <<"failed to download">> \o proc[p].ret, "Remove")]
    /\ UNCHANGED <<env, toolName, fsys, inodes, hist, listing, registry, cmd>>

\* the deferred fs.Remove(tmpFile); its error is assigned to a local that
\* download does not return, so it changes nothing
download_defer(p) ==
    /\ proc[p].pc = "defer"
    /\ LET tmpFile == TmpPath(proc[p].binPath) IN
       /\ fsys' = IF RemoveOk(fsys, tmpFile) THEN Remove(fsys, tmpFile) ELSE fsys
       /\ proc' = [proc EXCEPT ![p] =
             IF proc[p].ret = Nil
             THEN Goto(@, IF proc[p].op = "Exec" THEN "writeDownloaded" ELSE "Chmod", "Remove")
             ELSE Fail(@, <<"failed to download">> \o proc[p].ret, "Remove")]
       /\ inodes' = Collect(inodes, fsys', proc')
    /\ UNCHANGED <<env, toolName, hist, listing, registry, cmd>>

----------------------------------------------------------------------------
(* extractTarGzFile(fs, tmpFile, destPath, t.Name)                         *)

ExtractErr(e) == <<"failed to extract archive">> \o e

\* fs.Open, gzip.NewReader and the tr.Next loop up to the matching header
extract_Open(p) ==
    /\ proc[p].pc = "extract"
    /\ LET archivePath == TmpPath(proc[p].binPath) IN
       \/ /\ Exists(fsys, archivePath)
          /\ LET a == ReadArchive(DataAt(fsys, inodes, archivePath)) IN
             proc' = [proc EXCEPT ![p] =
                CASE a.res = "gzip" ->
                        Unwind(@, ExtractErr(<<"failed to create gzip reader">>), "Open")
                  [] a.res = "tar" ->
                        Unwind(@, ExtractErr(<<"failed to read tar">>), "Open")
                  [] a.res = "eof" ->
                        Unwind(@, ExtractErr(<<"binary not found in archive">>), "Open")
                  [] a.res = "found" ->
                        [Goto(@, "extractCreate", "Open") EXCEPT
                            !.stream = a.data, !.short = a.short]]
       \/ proc' = [proc EXCEPT ![p] =
             Unwind(@, ExtractErr(<<"failed to open archive">>), "Open")]
    /\ UNCHANGED <<env, toolName, fsys, inodes, hist, listing, registry, cmd>>

extract_Create(p) ==
    /\ proc[p].pc = "extractCreate"
    /\ LET destPath == proc[p].binPath IN
       \/ /\ CreateOk(fsys, destPath)
          /\ fsys' = CreateNames(fsys, inodes, destPath)
          /\ proc' = [proc EXCEPT ![p] =
                [Goto(@, "extractCopy", "Create dest") EXCEPT
                    !.fd = CreateIno(fsys, inodes, destPath), !.off = 0]]
          /\ inodes' = Collect(CreateFiles(fsys, inodes, destPath), fsys', proc')
       \/ /\ proc' = [proc EXCEPT ![p] =
                Unwind(@, ExtractErr(<<"failed to create output file">>), "Create dest")]
          /\ UNCHANGED <<fsys, inodes>>
    /\ UNCHANGED <<env, toolName, hist, listing, registry, cmd>>

\* io.Copy(out, tr): the entry's bytes, an error when the archive ends early
extract_Copy(p) ==
    /\ proc[p].pc = "extractCopy"
    /\ \/ /\ proc[p].stream # <<>>
          /\ inodes' = [inodes EXCEPT ![proc[p].fd].data =
                            WriteAt(@, proc[p].off, <<Head(proc[p].stream)>>)]
          /\ proc' = [proc EXCEPT ![p].stream = Tail(@), ![p].off = @ + 1]
       \/ /\ proc[p].stream = <<>> /\ ~proc[p].short
          /\ proc' = [proc EXCEPT ![p] = Goto(@, "extractClose", "Copy dest")]
          /\ UNCHANGED inodes
       \/ /\ proc[p].stream = <<>> /\ proc[p].short
          /\ proc' = [proc EXCEPT ![p] =
                Unwind(@, ExtractErr(<<"failed to extract binary">>), "Copy dest")]
          /\ inodes' = Collect(inodes, fsys, proc')
    /\ UNCHANGED <<env, toolName, fsys, hist, listing, registry, cmd>>

extract_Close(p) ==
    /\ proc[p].pc = "extractClose"
    /\ \/ proc' = [proc EXCEPT ![p] = [Goto(@, "extractRemove", "Close dest") EXCEPT !.fd = 0]]
       \/ proc' = [proc EXCEPT ![p] = Unwind(@, ExtractErr(<<"close failed">>), "Close dest")]
    /\ inodes' = Collect(inodes, fsys, proc')
    /\ UNCHANGED <<env, toolName, fsys, hist, listing, registry, cmd>>

\* fs.Remove(archivePath) after the extraction
extract_Remove(p) ==
    /\ proc[p].pc = "extractRemove"
    /\ LET archivePath == TmpPath(proc[p].binPath) IN
       \/ /\ RemoveOk(fsys, archivePath)
          /\ fsys' = Remove(fsys, archivePath)
          /\ proc' = [proc EXCEPT ![p] = Unwind(@, Nil, "Remove archive")]
          /\ inodes' = Collect(inodes, fsys', proc')
       \/ /\ ~RemoveOk(fsys, archivePath)
          /\ proc' = [proc EXCEPT ![p] =
                Unwind(@, ExtractErr(<<"remove failed">>), "Remove archive")]
          /\ UNCHANGED <<fsys, inodes>>
    /\ UNCHANGED <<env, toolName, hist, listing, registry, cmd>>

----------------------------------------------------------------------------
(* Version names. A name is a Go string; Chars gives its characters, Ord   *)
(* orders characters as their bytes are ordered. The names carry no        *)
(* pre-release and no build metadata.                                      *)

NameList == <<"dev", "latest", "v1.2.10", "v1.2.2", "v1.2.2x", "v1.2.3">>
VersionNames == Range(NameList)

Chars(name) ==
    CASE name = "dev"     -> <<"d", "e", "v">>
      [] name = "latest"  -> <<"l", "a", "t", "e", "s", "t">>
      [] name = "v1.2.10" -> <<"v", "1", ".", "2", ".", "1", "0">>
      [] name = "v1.2.2"  -> <<"v", "1", ".", "2", ".", "2">>
      [] name = "v1.2.2x" -> <<"v", "1", ".", "2", ".", "2", "x">>
      [] name = "v1.2.3"  -> <<"v", "1", ".", "2", ".", "3">>
      [] name = "cilium"  -> <<"c", "i", "l", "i", "u", "m">>
      [] name = "kind"    -> <<"k", "i", "n", "d">>
      [] name = "kubectl" -> <<"k", "u", "b", "e", "c", "t", "l">>

Alphabet ==
    <<".", "0", "1", "2", "3", "a", "b", "c", "d", "e", "i", "k", "l", "m", "n", "s", "t",
      "u", "v", "x">>
Digits == <<"0", "1", "2", "3">>

Ord(c) == CHOOSE i \in DOMAIN Alphabet : Alphabet[i] = c
IsDigit(c) == c \in Range(Digits)
DigitValue(c) == (CHOOSE i \in DOMAIN Digits : Digits[i] = c) - 1

\* v1 < v2 on Go strings: bytewise, a proper prefix is smaller
RECURSIVE SeqLess(_, _)
SeqLess(a, b) ==
    IF b = <<>> THEN FALSE
    ELSE IF a = <<>> THEN TRUE
    ELSE IF a[1] = b[1] THEN SeqLess(Tail(a), Tail(b))
    ELSE Ord(a[1]) < Ord(b[1])

StringLess(v1, v2) == SeqLess(Chars(v1), Chars(v2))

\* semver.NewVersion: an optional "v", then one to three numbers with dots
\* between them; a missing minor or patch is 0
StripV(s) == IF s # <<>> /\ s[1] = "v" THEN Tail(s) ELSE s

RECURSIVE SplitDots(_)
SplitDots(s) ==
    IF \A i \in DOMAIN s : s[i] # "."
    THEN <<s>>
    ELSE LET d == CHOOSE i \in DOMAIN s : s[i] = "." /\ \A j \in 1..(i - 1) : s[j] # "."
         IN <<Take(s, d - 1)>> \o SplitDots(Drop(s, d))

IsNumber(seg) == seg # <<>> /\ \A i \in DOMAIN seg : IsDigit(seg[i])

RECURSIVE Number(_)
Number(seg) ==
    IF seg = <<>> THEN 0
    ELSE 10 * Number(Take(seg, Len(seg) - 1)) + DigitValue(seg[Len(seg)])

NewVersionErr(v) ==
    LET parts == SplitDots(StripV(Chars(v)))
    IN ~(Len(parts) <= 3 /\ \A i \in DOMAIN parts : IsNumber(parts[i]))

NewVersion(v) ==
    LET parts == SplitDots(StripV(Chars(v)))
    IN [i \in 1..3 |-> IF i <= Len(parts) THEN Number(parts[i]) ELSE 0]

\* Version.Compare: major, then minor, then patch
VersionCompare(a, b) ==
    IF a = b THEN 0
    ELSE LET i == CHOOSE k \in 1..3 : a[k] # b[k] /\ \A j \in 1..(k - 1) : a[j] = b[j]
         IN IF a[i] > b[i] THEN 1 ELSE -1

compareVersions(v1, v2) ==
    IF NewVersionErr(v1) \/ NewVersionErr(v2)
    THEN IF StringLess(v2, v1) THEN 1
         ELSE IF StringLess(v1, v2) THEN -1
         ELSE 0
    ELSE VersionCompare(NewVersion(v1), NewVersion(v2))

----------------------------------------------------------------------------
(* Tool.CachedVersions.                                                    *)

\* afero.ReadDir: the names in a directory, sorted by name
Children(f, dir) ==
    {q[Len(q)] : q \in {q \in DOMAIN f : Len(q) = Len(dir) + 1 /\ Dir(q) = dir}}

RECURSIVE SortNames(_)
SortNames(names) ==
    IF names = {} THEN <<>>
    ELSE LET m == CHOOSE n \in names : \A o \in names \ {n} : StringLess(n, o)
         IN <<m>> \o SortNames(names \ {m})

ReadDir(f, dir) == SortNames(Children(f, dir))

\* mutant: no check that the binary is there
versionEntry_noExists(f, ino, toolDir, name, t) ==
    LET binPath == Join(toolDir, <<name, t>>)
    IN IF ~IsDir(f, Join(toolDir, <<name>>)) THEN <<>>
       ELSE <<[Version |-> name, Path |-> binPath,
               Size |-> IF Exists(f, binPath) THEN Len(DataAt(f, ino, binPath)) ELSE 0]>>

\* the body of the loop over the entries: the CachedVersion it appends
versionEntry(f, ino, toolDir, name, t) ==
    LET binPath == Join(toolDir, <<name, t>>)
    IN IF ~IsDir(f, Join(toolDir, <<name>>)) THEN <<>>
       ELSE IF ~Exists(f, binPath) THEN <<>>
       ELSE <<[Version |-> name, Path |-> binPath, Size |-> Len(DataAt(f, ino, binPath))]>>

RECURSIVE scanEntries(_, _, _, _, _)
scanEntries(f, ino, toolDir, entries, t) ==
    IF entries = <<>> THEN <<>>
    ELSE versionEntry(f, ino, toolDir, entries[1], t)
            \o scanEntries(f, ino, toolDir, Tail(entries), t)

\* the less function handed to sort.Slice
versionLess(a, b) == compareVersions(a.Version, b.Version) > 0

\* sort.Slice on a short slice is an insertion sort:
\* for i := 1; i < n; i++ { for j := i; j > 0 && less(j, j-1); j-- { swap } }
Swap(s, i, j) == [s EXCEPT ![i] = s[j], ![j] = s[i]]

RECURSIVE Sink(_, _)
Sink(s, j) ==
    IF j > 1 /\ versionLess(s[j], s[j - 1]) THEN Sink(Swap(s, j, j - 1), j - 1) ELSE s

RECURSIVE insertionSort(_, _)
insertionSort(s, i) == IF i > Len(s) THEN s ELSE insertionSort(Sink(s, i), i + 1)

sortSlice(s) == insertionSort(s, 2)

ToolDir(e, f, t) == Join(DataDir(e, f), <<"kdev", t>>)

\* what Tool.CachedVersions returns for tool t
cachedVersions(e, f, ino, t) ==
    IF DataDirErr(e, f)
    THEN [called |-> TRUE, err |-> <<"failed to get data directory">>, versions |-> <<>>]
    ELSE IF ~IsDir(f, ToolDir(e, f, t))
    THEN [called |-> TRUE, err |-> Nil, versions |-> <<>>]
    ELSE [called |-> TRUE, err |-> Nil,
          versions |->
              sortSlice(scanEntries(f, ino, ToolDir(e, f, t), ReadDir(f, ToolDir(e, f, t)), t))]

CachedVersions ==
    /\ ~listing.called
    /\ listing' = cachedVersions(env, fsys, inodes, toolName)
    /\ UNCHANGED <<env, toolName, fsys, inodes, proc, hist, registry, cmd>>

Done(op, args, old, err, out, printed) ==
    [op |-> op, args |-> args, old |-> old, err |-> err, out |-> out,
     printed |-> printed, fs0 |-> fsys, ino0 |-> inodes]

\* mutant: a failed fs.Stat appends the entry with size 0
versionEntryStat_keepsEntry(f, g, ino, toolDir, name, t) ==
    LET binPath == Join(toolDir, <<name, t>>)
    IN IF ~IsDir(f, Join(toolDir, <<name>>)) THEN <<>>
       ELSE IF ~Exists(f, binPath) THEN <<>>
       ELSE IF binPath \notin DOMAIN g
       THEN <<[Version |-> name, Path |-> binPath, Size |-> 0]>>
       ELSE <<[Version |-> name, Path |-> binPath, Size |-> Len(DataAt(f, ino, binPath))]>>

\* the loop body when other processes remove binaries while the loop runs:
\* helper.Exists sees f, the fs.Stat after it sees g
versionEntryStat(f, g, ino, toolDir, name, t) ==
    LET binPath == Join(toolDir, <<name, t>>)
    IN IF ~IsDir(f, Join(toolDir, <<name>>)) THEN <<>>
       ELSE IF ~Exists(f, binPath) THEN <<>>
       ELSE IF binPath \notin DOMAIN g THEN <<>>
       ELSE <<[Version |-> name, Path |-> binPath, Size |-> Len(DataAt(f, ino, binPath))]>>

RECURSIVE scanEntriesStat(_, _, _, _, _, _)
scanEntriesStat(f, g, ino, toolDir, entries, t) ==
    IF entries = <<>> THEN <<>>
    ELSE versionEntryStat(f, g, ino, toolDir, entries[1], t)
            \o scanEntriesStat(f, g, ino, toolDir, Tail(entries), t)

\* Tool.CachedVersions while the binaries of the versions in gone are
\* removed between their existence check and their Stat
CachedVersionsStat ==
    /\ ~listing.called
    /\ ~DataDirErr(env, fsys)
    /\ IsDir(fsys, ToolDir(env, fsys, toolName))
    /\ LET toolDir == ToolDir(env, fsys, toolName)
           cached == {n \in Children(fsys, toolDir) : Exists(fsys, Join(toolDir, <<n, toolName>>))}
       IN \E gone \in SUBSET cached :
             LET g == [q \in DOMAIN fsys \ {Join(toolDir, <<n, toolName>>) : n \in gone} |-> fsys[q]]
             IN /\ listing' = [called |-> TRUE, err |-> Nil,
                               versions |-> sortSlice(scanEntriesStat(fsys, g, inodes, toolDir,
                                                                      ReadDir(fsys, toolDir), toolName))]
                /\ fsys' = g
                /\ inodes' = Collect(inodes, g, proc)
                /\ cmd' = Done("CachedVersions", <<>>, FALSE, Nil, <<>>, <<>>)
    /\ UNCHANGED <<env, toolName, proc, hist, registry>>

----------------------------------------------------------------------------
(* Tool.CleanVersion, Tool.CleanAll and the "tools clean" command.         *)

IsPrefix(a, b) == Len(a) <= Len(b) /\ Take(b, Len(a)) = a

\* fs.RemoveAll: the path and everything below it
RemoveAll(f, path) == [q \in {q \in DOMAIN f : ~IsPrefix(path, q)} |-> f[q]]

\* mutant: a directory that is not there is an error
cleanDir_absentFails(e, f, dir, fails, msg) ==
    IF DataDirErr(e, f) THEN [f |-> f, err |-> <<"failed to get data directory">>, removed |-> FALSE]
    ELSE IF ~IsDir(f, dir) \/ fails THEN [f |-> f, err |-> <<msg, "remove failed">>, removed |-> FALSE]
    ELSE [f |-> RemoveAll(f, dir), err |-> Nil, removed |-> TRUE]

\* the filesystem a cache operation works on, with the error it returns;
\* fails: the fs.RemoveAll it may call fails and removes nothing
cleanDir(e, f, dir, fails, msg) ==
    IF DataDirErr(e, f) THEN [f |-> f, err |-> <<"failed to get data directory">>, removed |-> FALSE]
    ELSE IF ~IsDir(f, dir) THEN [f |-> f, err |-> Nil, removed |-> FALSE]
    ELSE IF fails THEN [f |-> f, err |-> <<msg, "remove failed">>, removed |-> FALSE]
    ELSE [f |-> RemoveAll(f, dir), err |-> Nil, removed |-> TRUE]

cleanVersion(e, f, t, version, fails) ==
    cleanDir(e, f, Join(DataDir(e, f), <<"kdev", t, version>>), fails,
             "failed to remove version directory")

\* mutant: the directory of all tools is removed
cleanAll_wholeRoot(e, f, t, fails) ==
    cleanDir(e, f, Join(DataDir(e, f), <<"kdev">>), fails, "failed to remove tool directory")

cleanAll(e, f, t, fails) ==
    cleanDir(e, f, Join(DataDir(e, f), <<"kdev", t>>), fails, "failed to remove tool directory")

\* the record of a finished operation
\* the version strings CleanVersion is called with
VersionArgs == VersionNames \cup {"", ".."}

CleanVersion(version) ==
    /\ cmd.op = ""
    /\ \E fails \in BOOLEAN :
          LET r == cleanVersion(env, fsys, toolName, version, fails)
          IN /\ fsys' = r.f
             /\ inodes' = Collect(inodes, r.f, proc)
             /\ cmd' = Done("CleanVersion", <<version>>, FALSE, r.err, <<>>, <<>>)
    /\ UNCHANGED <<env, toolName, proc, hist, listing, registry>>

CleanAll ==
    /\ cmd.op = ""
    /\ \E fails \in BOOLEAN :
          LET r == cleanAll(env, fsys, toolName, fails)
          IN /\ fsys' = r.f
             /\ inodes' = Collect(inodes, r.f, proc)
             /\ cmd' = Done("CleanAll", <<>>, FALSE, r.err, <<>>, <<>>)
    /\ UNCHANGED <<env, toolName, proc, hist, listing, registry>>

----------------------------------------------------------------------------
(* Registry.                                                               *)

\* mutant: a name that is no key gets the kubectl tool
RegistryGet_defaultKubectl(r, name) == IF name \in DOMAIN r THEN r[name] ELSE r["kubectl"]

\* Registry.Get: r.tools[name], nil for a name that is no key
RegistryGet(r, name) == IF name \in DOMAIN r THEN r[name] ELSE NoTool

\* Registry.All: the names, sort.Strings
RegistryAll(r) == SortNames(DOMAIN r)

\* Registry.AllTools: the tools, sort.Slice by Name
RegistryAllTools(r) == [i \in 1..Cardinality(DOMAIN r) |-> r[SortNames(DOMAIN r)[i]]]

ToolArgs == {"kubectl", "kind", "cilium", "helm", ""}

Get(name) ==
    /\ cmd.op = ""
    /\ cmd' = Done("Get", <<name>>, FALSE, Nil, <<RegistryGet(registry, name)>>, <<>>)
    /\ UNCHANGED <<env, toolName, fsys, inodes, proc, hist, listing, registry>>

All ==
    /\ cmd.op = ""
    /\ cmd' = Done("All", <<>>, FALSE, Nil, RegistryAll(registry), <<>>)
    /\ UNCHANGED <<env, toolName, fsys, inodes, proc, hist, listing, registry>>

AllTools ==
    /\ cmd.op = ""
    /\ cmd' = Done("AllTools", <<>>, FALSE, Nil, RegistryAllTools(registry), <<>>)
    /\ UNCHANGED <<env, toolName, fsys, inodes, proc, hist, listing, registry>>

\* resolveTools: all tools when no name is given, else the registered ones
\* among the names, in the order given
RECURSIVE resolveTools(_, _)
resolveTools(r, names) ==
    IF names = <<>> THEN <<>>
    ELSE (IF RegistryGet(r, names[1]) # NoTool THEN <<RegistryGet(r, names[1])>> ELSE <<>>)
            \o resolveTools(r, Tail(names))

\* mutant: names that are all unknown select every tool
ResolveTools_unknownSelectsAll(r, names) ==
    IF resolveTools(r, names) = <<>> THEN RegistryAllTools(r) ELSE resolveTools(r, names)

ResolveTools(r, names) == IF names = <<>> THEN RegistryAllTools(r) ELSE resolveTools(r, names)

----------------------------------------------------------------------------
(* runToolsClean. A run threads the filesystem, the bytes reclaimed, the   *)
(* error and the number of fs.RemoveAll calls made; the fault-th call of   *)
(* the run fails (none when fault is 0; the first or the second else).     *)

CleanRun(f) == [f |-> f, total |-> 0, err |-> Nil, calls |-> 0]

\* one t.CleanVersion or t.CleanAll of the run
CleanCall(e, s, r, wrap) ==
    [f |-> r.f,
     total |-> s.total,
     err |-> IF r.err = Nil THEN Nil ELSE <<wrap>> \o r.err,
     calls |-> IF r.removed \/ (r.err # Nil /\ ~DataDirErr(e, s.f)) THEN s.calls + 1 ELSE s.calls]

\* for i := 1; i < len(versions); i++ { total += Size; t.CleanVersion(...) }
RECURSIVE cleanOldLoop(_, _, _, _, _, _)
cleanOldLoop(e, s, t, versions, i, fault) ==
    IF i > Len(versions) \/ s.err # Nil THEN s
    ELSE LET counted == [s EXCEPT !.total = @ + versions[i].Size]
             r == cleanVersion(e, s.f, t, versions[i].Version, s.calls + 1 = fault)
         IN cleanOldLoop(e, CleanCall(e, counted, r, "failed to clean version"),
                         t, versions, i + 1, fault)

\* mutant: only the first version of a tool is counted
SumSizes_firstOnly(versions) ==
    IF versions = <<>> THEN 0 ELSE versions[1].Size

RECURSIVE SumSizes(_)
SumSizes(versions) ==
    IF versions = <<>> THEN 0 ELSE versions[1].Size + SumSizes(Tail(versions))

\* mutant: with --old the loop over the versions starts at the first one
cleanTool_oldFromFirst(e, s, ino, t, old, fault) ==
    LET listed == cachedVersions(e, s.f, ino, t)
    IN IF listed.err # Nil
       THEN [s EXCEPT !.err = <<"failed to get cached versions">> \o listed.err]
       ELSE IF old
       THEN cleanOldLoop(e, s, t, listed.versions, 1, fault)
       ELSE CleanCall(e, [s EXCEPT !.total = @ + SumSizes(listed.versions)],
                      cleanAll(e, s.f, t, s.calls + 1 = fault), "failed to clean")

\* the body of the loop over the tools
cleanTool(e, s, ino, t, old, fault) ==
    LET listed == cachedVersions(e, s.f, ino, t)
    IN IF listed.err # Nil
       THEN [s EXCEPT !.err = <<"failed to get cached versions">> \o listed.err]
       ELSE IF old
       THEN cleanOldLoop(e, s, t, listed.versions, 2, fault)
       ELSE CleanCall(e, [s EXCEPT !.total = @ + SumSizes(listed.versions)],
                      cleanAll(e, s.f, t, s.calls + 1 = fault), "failed to clean")

RECURSIVE cleanTools(_, _, _, _, _, _)
cleanTools(e, s, ino, tools, old, fault) ==
    IF tools = <<>> \/ s.err # Nil THEN s
    ELSE cleanTools(e, cleanTool(e, s, ino, tools[1].Name, old, fault), ino,
                    Tail(tools), old, fault)

CleanArgs == {<<>>, <<"kubectl">>, <<"kind">>, <<"helm">>}

runToolsClean(args, old) ==
    /\ cmd.op = ""
    /\ \E fault \in 0..2, outFails \in BOOLEAN :
          LET s == cleanTools(env, CleanRun(fsys), inodes,
                              ResolveTools(NewRegistry, args), old, fault)
              prints == s.err = Nil /\ s.total > 0
          IN /\ fsys' = s.f
             /\ inodes' = Collect(inodes, s.f, proc)
             /\ cmd' = Done("runToolsClean", args, old,
                            IF prints /\ outFails THEN <<"failed to write output">> ELSE s.err,
                            <<>>,
                            IF prints /\ ~outFails
                            THEN <<[msg |-> "Reclaimed", bytes |-> s.total]>> ELSE <<>>)
    /\ UNCHANGED <<env, toolName, proc, hist, listing, registry>>

----------------------------------------------------------------------------
(* runToolsInfo and printToolInfo. A run threads the filesystem, the total *)
(* size, the error, the lines written and the number of writes made; the   *)
(* failAt-th write of the run fails (none when failAt is 0).               *)

InfoRun(f) == [f |-> f, total |-> 0, err |-> Nil, printed |-> <<>>, writes |-> 0]

InfoLine(t, version, size, path, msg) ==
    [tool |-> t, version |-> version, size |-> size, path |-> path, msg |-> msg]

\* fmt.Fprintf(out, ...)
infoWrite(s, line, failAt) ==
    IF s.writes + 1 = failAt
    THEN [s EXCEPT !.writes = @ + 1, !.err = <<"failed to write output">>]
    ELSE [s EXCEPT !.writes = @ + 1, !.printed = Append(@, line)]

\* for i, v := range versions { ... }
RECURSIVE printVersions(_, _, _, _, _)
printVersions(s, t, versions, i, failAt) ==
    IF i > Len(versions) \/ s.err # Nil THEN s
    ELSE printVersions(infoWrite(s, InfoLine(t, versions[i].Version, versions[i].Size,
                                             versions[i].Path,
                                             IF i = 1 THEN "newest" ELSE "old"), failAt),
                       t, versions, i + 1, failAt)

\* mutant: the listing creates the cache directory of the tool
printToolInfo_makesCacheDir(e, s, ino, t, failAt) ==
    LET listed == cachedVersions(e, s.f, ino, t)
    IN IF listed.err # Nil
       THEN [s EXCEPT !.err = <<"failed to get cached versions">> \o listed.err]
       ELSE infoWrite([s EXCEPT !.f = MkdirAll(s.f, ToolDir(e, s.f, t))],
                      InfoLine(t, "", 0, <<>>, "(not cached)"), failAt)

printToolInfo(e, s, ino, t, failAt) ==
    LET listed == cachedVersions(e, s.f, ino, t)
    IN IF listed.err # Nil
       THEN [s EXCEPT !.err = <<"failed to get cached versions">> \o listed.err]
       ELSE IF listed.versions = <<>>
       THEN infoWrite(s, InfoLine(t, "", 0, <<>>, "(not cached)"), failAt)
       ELSE LET r == printVersions(s, t, listed.versions, 1, failAt)
            IN IF r.err # Nil THEN r
               ELSE [r EXCEPT !.total = @ + SumSizes(listed.versions)]

RECURSIVE infoTools(_, _, _, _, _)
infoTools(e, s, ino, tools, failAt) ==
    IF tools = <<>> \/ s.err # Nil THEN s
    ELSE infoTools(e, printToolInfo(e, s, ino, tools[1].Name, failAt), ino,
                   Tail(tools), failAt)

runToolsInfo(args) ==
    /\ cmd.op = ""
    /\ \E failAt \in 0..2 :
          LET tools == ResolveTools(NewRegistry, args)
              s == infoTools(env, InfoRun(fsys), inodes, tools, failAt)
              r == IF s.err = Nil /\ Len(tools) > 1 /\ s.total > 0
                   THEN infoWrite(s, InfoLine("", "", s.total, <<>>, "cache size"), failAt)
                   ELSE s
          IN /\ fsys' = r.f
             /\ inodes' = Collect(inodes, r.f, proc)
             /\ cmd' = Done("runToolsInfo", args, FALSE, r.err, <<>>, r.printed)
    /\ UNCHANGED <<env, toolName, proc, hist, listing, registry>>

----------------------------------------------------------------------------
(* Specifications.                                                         *)

EmptyFiles == [i \in {} |-> [data |-> <<>>, mode |-> Mode0644]]

Home == "/home/u"
XdgDataHome == "/xdg"

\* the environments: XDG_DATA_HOME and HOME set or not, ~/.local/share
\* there or not, a ProgressWriter or none, the version upstream calls the
\* latest, and what its download and checksum URLs answer with
Envs(contents) ==
    { [xdg |-> x, home |-> h, progress |-> w, share |-> s, latest |-> v,
       serves |-> contents, sums |-> ChecksumBodies(contents)] :
        x \in {"", XdgDataHome}, h \in {"", Home}, w \in BOOLEAN, s \in BOOLEAN,
        v \in UpstreamVersions }

HomeDirs(e) ==
    IF e.home = "" THEN {}
    ELSE IF e.share THEN Prefixes(<<e.home, ".local", "share">>)
    ELSE {<<e.home>>}

InitEnv(e) ==
    /\ env = e
    /\ fsys = [q \in HomeDirs(e) |-> DirNode]
    /\ inodes = EmptyFiles
    /\ proc = [p \in Procs |-> IdleProc]
    /\ hist = NoHist
    /\ listing = NoListing
    /\ registry = NewRegistry
    /\ cmd = NoCmd

Step(p) ==
    \/ Exec(p)
    \/ Download(p)
    \/ prepareExec_DataDir(p)
    \/ prepareExec_VersionFunc(p)
    \/ prepareExec_Exists(p)
    \/ prepareExec_writeDownloading(p)
    \/ download_MkdirAll(p)
    \/ download_fetchChecksum(p)
    \/ download_GET(p)
    \/ download_Create(p)
    \/ download_Copy(p)
    \/ download_Close(p)
    \/ download_compare(p)
    \/ download_Rename(p)
    \/ extract_Open(p)
    \/ extract_Create(p)
    \/ extract_Copy(p)
    \/ extract_Close(p)
    \/ extract_Remove(p)
    \/ download_defer(p)
    \/ prepareExec_writeDownloaded(p)
    \/ prepareExec_Chmod(p)
    \/ Exec_syscall(p)
    \/ Return(p)

\* one shell: invocations one after the other
Init ==
    /\ toolName \in Tools
    /\ \E e \in Envs(ServedContents(toolName)) :
          /\ e.home = "" => ~e.share /\ e.xdg = ""
          /\ e.xdg # "" => e.share
          /\ InitEnv(e)

Next == Step(1)

Spec == Init /\ [][Next]_vars

\* two shells: each starts one invocation of the launcher or of Download
\* for kubectl (no archive), whose upstream serves one content and its
\* checksum; the steps of the two interleave
RaceContent == <<1, 2>>

RaceEnv ==
    [xdg |-> "", home |-> Home, progress |-> TRUE, share |-> TRUE,
     latest |-> "v1.2.3", serves |-> {RaceContent}, sums |-> {Sha256Hex(RaceContent)}]

InitRace ==
    /\ toolName = "kubectl"
    /\ InitEnv(RaceEnv)

StepRace(p) ==
    \/ Exec(p)
    \/ Download(p)
    \/ prepareExec_DataDir(p)
    \/ prepareExec_VersionFunc(p)
    \/ prepareExec_Exists(p)
    \/ prepareExec_writeDownloading(p)
    \/ download_MkdirAll(p)
    \/ download_fetchChecksum(p)
    \/ download_GET(p)
    \/ download_Create(p)
    \/ download_Copy(p)
    \/ download_Close(p)
    \/ download_compare(p)
    \/ download_Rename(p)
    \/ download_defer(p)
    \/ prepareExec_writeDownloaded(p)
    \/ prepareExec_Chmod(p)
    \/ Exec_syscall(p)

NextRace == \E p \in Procs : StepRace(p)

SpecRace == InitRace /\ [][NextRace]_vars

\* a cache directory as a listing may find it: under the tool directory up
\* to MaxDirs names, each a regular file, an empty version directory, a
\* version directory whose binary name is a directory, or one with a binary
EntryKinds ==
    {[kind |-> k, size |-> 0] : k \in {"file", "empty", "bindir"}}
        \cup {[kind |-> "bin", size |-> n] : n \in 0..MaxLen}

Layouts ==
    UNION {[S -> EntryKinds] : S \in {S \in SUBSET VersionNames : Cardinality(S) <= MaxDirs}}

\* the file a name of the layout stands for
NameIno(name) == CHOOSE i \in DOMAIN NameList : NameList[i] = name

LayoutPaths(toolDir, t, lay) ==
    {Join(toolDir, <<n>>) : n \in DOMAIN lay}
        \cup {Join(toolDir, <<n, t>>) : n \in {n \in DOMAIN lay : lay[n].kind \in {"bindir", "bin"}}}

LayoutNode(toolDir, lay, q) ==
    LET n == q[Len(toolDir) + 1]
    IN IF Len(q) = Len(toolDir) + 1
       THEN IF lay[n].kind = "file" THEN FileNode(NameIno(n)) ELSE DirNode
       ELSE IF lay[n].kind = "bin" THEN FileNode(NameIno(n)) ELSE DirNode

ListEnvs ==
    {[xdg |-> "", home |-> h, progress |-> FALSE, share |-> s, latest |-> "v1.2.3",
      serves |-> {}, sums |-> {}] : h \in {"", Home}, s \in BOOLEAN}

InitList ==
    /\ toolName = "kubectl"
    /\ \E e \in ListEnvs, mk \in BOOLEAN, lay \in Layouts :
          LET base == [q \in HomeDirs(e) |-> DirNode]
              toolDir == ToolDir(e, base, toolName)
              made == IF mk THEN MkdirAll(base, toolDir) ELSE base
          IN /\ e.home = "" => ~e.share /\ ~mk
             /\ DOMAIN lay # {} => mk
             /\ env = e
             /\ fsys = [q \in DOMAIN made \cup LayoutPaths(toolDir, toolName, lay) |->
                          IF q \in DOMAIN made THEN made[q]
                          ELSE LayoutNode(toolDir, lay, q)]
             /\ inodes = [i \in {NameIno(n) : n \in {n \in DOMAIN lay : lay[n].kind \in {"file", "bin"}}} |->
                            LET n == CHOOSE n \in DOMAIN lay : NameIno(n) = i
                            IN [data |-> [k \in 1..lay[n].size |-> 1], mode |-> Mode0755]]
    /\ proc = [p \in Procs |-> IdleProc]
    /\ hist = NoHist
    /\ listing = NoListing
    /\ registry = NewRegistry
    /\ cmd = NoCmd

NextList == CachedVersions

SpecList == InitList /\ [][NextList]_vars

\* the cache a clean command may find: a kubectl cache of up to MaxDirs
\* entries (regular files, empty version directories, version directories
\* with a binary that is empty or of MaxLen bytes) and next to it a kind
\* cache of two versions of 1 and 2 bytes
CleanKinds == {k \in EntryKinds : k.kind # "bindir" /\ k.size \in {0, MaxLen}}
CleanNames == {"latest", "v1.2.10", "v1.2.2x", "v1.2.3"}

CleanLayouts ==
    UNION {[S -> CleanKinds] : S \in {S \in SUBSET CleanNames : Cardinality(S) <= MaxDirs}}

OtherTool == "kind"
OtherVersions == <<"v1.2.3", "v1.2.10">>
OtherIno(i) == Len(NameList) + i

OtherPaths(root) ==
    Prefixes(Join(root, <<OtherTool>>))
        \cup UNION {{Join(root, <<OtherTool, OtherVersions[i]>>),
                     Join(root, <<OtherTool, OtherVersions[i], OtherTool>>)} :
                        i \in DOMAIN OtherVersions}

OtherNode(root, q) ==
    IF Len(q) = Len(root) + 3
    THEN FileNode(OtherIno(CHOOSE i \in DOMAIN OtherVersions : q[Len(root) + 2] = OtherVersions[i]))
    ELSE DirNode

InitClean ==
    /\ toolName = "kubectl"
    /\ \E e \in ListEnvs, mk \in BOOLEAN, lay \in CleanLayouts :
          LET other == e.home # ""
              base == [q \in HomeDirs(e) |-> DirNode]
              root == Join(DataDir(e, base), <<"kdev">>)
              toolDir == ToolDir(e, base, toolName)
              made == IF mk THEN MkdirAll(base, toolDir) ELSE base
              others == IF other THEN OtherPaths(root) ELSE {}
          IN /\ e.home = "" => ~e.share /\ ~mk
             /\ e.home # "" => e.share
             /\ DOMAIN lay # {} => mk
             /\ env = e
             /\ fsys = [q \in DOMAIN made \cup LayoutPaths(toolDir, toolName, lay) \cup others |->
                          IF q \in DOMAIN made THEN made[q]
                          ELSE IF q \in others THEN OtherNode(root, q)
                          ELSE LayoutNode(toolDir, lay, q)]
             /\ inodes =
                   [i \in {NameIno(n) : n \in {n \in DOMAIN lay : lay[n].kind \in {"file", "bin"}}}
                          \cup (IF other THEN {OtherIno(k) : k \in DOMAIN OtherVersions} ELSE {}) |->
                      IF i > Len(NameList)
                      THEN [data |-> [k \in 1..(i - Len(NameList)) |-> 1], mode |-> Mode0755]
                      ELSE LET n == CHOOSE n \in DOMAIN lay : NameIno(n) = i
                           IN [data |-> [k \in 1..lay[n].size |-> 1], mode |-> Mode0755]]
    /\ proc = [p \in Procs |-> IdleProc]
    /\ hist = NoHist
    /\ listing = NoListing
    /\ registry = NewRegistry
    /\ cmd = NoCmd

\* a listing follows the operation
ListAfter == cmd.op # "" /\ CachedVersions

NextClean ==
    \/ ListAfter
    \/ \E version \in VersionArgs : CleanVersion(version)
    \/ CleanAll
    \/ \E args \in CleanArgs, old \in BOOLEAN : runToolsClean(args, old)
    \/ \E name \in ToolArgs : Get(name)
    \/ All
    \/ AllTools

SpecClean == InitClean /\ [][NextClean]_vars

\* "tools info" and a listing on the caches of SpecClean
NextInfo ==
    \/ \E args \in CleanArgs : runToolsInfo(args)
    \/ CachedVersions

SpecInfo == InitClean /\ [][NextInfo]_vars

\* fetchChecksum on its own: checksum documents of up to MaxBody characters,
\* white space, a digest, a letter
BodyChars == {Chr(" "), Chr("\n"), Chr("\t"), HexChar(<<1>>), Chr("f")}

FetchBodies == UNION {[1..n -> BodyChars] : n \in 0..MaxBody}

FetchResponses == Responses(FetchBodies)

FetchChecksum(resp) ==
    /\ cmd.op = ""
    /\ cmd' = Done("fetchChecksum", <<resp>>, FALSE, fetchChecksumFrom(resp).err,
                   <<fetchChecksumFrom(resp).checksum>>, <<>>)
    /\ UNCHANGED <<env, toolName, fsys, inodes, proc, hist, listing, registry>>

\* DataDir on its own: XDG_DATA_HOME unset, absolute or relative, the home
\* directory known or not, ~/.local/share a directory, a regular file or
\* not there
CallDataDir ==
    /\ cmd.op = ""
    /\ cmd' = Done("DataDir", <<>>, FALSE,
                   IF DataDirErr(env, fsys) THEN <<"home directory unknown">> ELSE Nil,
                   <<DataDir(env, fsys)>>, <<>>)
    /\ UNCHANGED <<env, toolName, fsys, inodes, proc, hist, listing, registry>>

HelperEnvs ==
    {[xdg |-> x, home |-> h, progress |-> FALSE, share |-> s, latest |-> "v1.2.3",
      serves |-> {}, sums |-> {}] :
        x \in {"", XdgDataHome, "data/"}, h \in {"", Home}, s \in BOOLEAN}

InitHelpers ==
    /\ toolName = "kubectl"
    /\ \E e \in HelperEnvs, shareIsFile \in BOOLEAN :
          /\ e.home = "" => ~e.share /\ ~shareIsFile
          /\ e.share => ~shareIsFile
          /\ env = e
          /\ fsys = IF shareIsFile
                    THEN [q \in Prefixes(<<e.home, ".local", "share">>) |->
                            IF Len(q) = 3 THEN FileNode(1) ELSE DirNode]
                    ELSE [q \in HomeDirs(e) |-> DirNode]
          /\ inodes = IF shareIsFile
                      THEN [i \in {1} |-> [data |-> <<>>, mode |-> Mode0644]]
                      ELSE EmptyFiles
    /\ proc = [p \in Procs |-> IdleProc]
    /\ hist = NoHist
    /\ listing = NoListing
    /\ registry = NewRegistry
    /\ cmd = NoCmd

NextHelpers ==
    \/ \E resp \in FetchResponses : FetchChecksum(resp)
    \/ CallDataDir

SpecHelpers == InitHelpers /\ [][NextHelpers]_vars

\* one download, with the cache operations of other processes between its
\* steps: process 1 downloads, process 2 is a launcher that goes on only
\* when it finds the binary cached, and one listing and one removal happen
\* at any moment
ObserveBinary == <<1, 2>>

ObserveContent(t) ==
    IF HasSuffixTarGz(DownloadURL(t, "", GOOS, GOARCH))
    THEN TarGz(<<[name |-> NameTool, data |-> ObserveBinary]>>)
    ELSE ObserveBinary

ObserveEnv(t) ==
    [xdg |-> "", home |-> Home, progress |-> FALSE, share |-> TRUE,
     latest |-> "v1.2.3", serves |-> {ObserveContent(t)},
     sums |-> {Sha256Hex(ObserveContent(t))}]

InitObserve ==
    /\ toolName \in {"kubectl", "cilium"}
    /\ InitEnv(ObserveEnv(toolName))

StepDownloader(p) ==
    \/ Download(p)
    \/ prepareExec_DataDir(p)
    \/ prepareExec_VersionFunc(p)
    \/ prepareExec_Exists(p)
    \/ prepareExec_writeDownloading(p)
    \/ download_MkdirAll(p)
    \/ download_fetchChecksum(p)
    \/ download_GET(p)
    \/ download_Create(p)
    \/ download_Copy(p)
    \/ download_Close(p)
    \/ download_compare(p)
    \/ download_Rename(p)
    \/ extract_Open(p)
    \/ extract_Create(p)
    \/ extract_Copy(p)
    \/ extract_Close(p)
    \/ extract_Remove(p)
    \/ download_defer(p)
    \/ prepareExec_writeDownloaded(p)
    \/ prepareExec_Chmod(p)

StepLauncher(p) ==
    \/ Exec(p)
    \/ prepareExec_DataDir(p)
    \/ prepareExec_VersionFunc(p)
    \/ prepareExec_Exists(p)
    \/ prepareExec_Chmod(p)
    \/ Exec_syscall(p)

NextObserve ==
    \/ StepDownloader(1)
    \/ StepLauncher(2)
    \/ CachedVersions
    \/ CleanVersion(env.latest)
    \/ CleanAll

SpecObserve == InitObserve /\ [][NextObserve]_vars

\* one download whose context the caller cancels while download is between
\* its first step and the end of the transfer; the point is kept
CancelPoints == {"MkdirAll", "fetchChecksum", "GET", "Create", "Copy"}

Cancel ==
    /\ cmd.op = ""
    /\ proc[1].pc \in CancelPoints
    /\ cmd' = Done("cancel", <<proc[1].pc>>, FALSE, Nil, <<>>, <<>>)
    /\ UNCHANGED <<env, toolName, fsys, inodes, proc, hist, listing, registry>>

NextCancel ==
    \/ StepDownloader(1)
    \/ Cancel

SpecCancel == InitObserve /\ [][NextCancel]_vars

----------------------------------------------------------------------------
(* The transfer of Tool.download as the progress sink sees it: the         *)
(* response, the choice of the reader, io.Copy, Finish and the deferred    *)
(* resp.Body.Close. ProgressReader itself follows the specification's      *)
(* words: an update for a read that crosses a 5% threshold, and a final    *)
(* 100% update from Finish.                                                *)

MaxChunk == 3

\* the sizes of the bodies served
TransferSizes == {0, 3, 7, 10}

\* resp.ContentLength for a body of size bytes: -1 when the server does not
\* say
ContentLengths(size) == IF size = 0 THEN {0} ELSE {size, -1}

NoReader == [total |-> 0, current |-> 0, lastPercent |-> 0]

NewProgressReader(total) == [total |-> total, current |-> 0, lastPercent |-> 0]

Percent(current, total) == IF total > 0 THEN (current * 100) \div total ELSE 0

Threshold(percent) == 5 * (percent \div 5)

\* Read of n bytes through the progress reader: the reader after it and the
\* updates it wrote
ProgressReader_Read(pr, n) ==
    LET current == pr.current + n
        percent == Percent(current, pr.total)
    IN IF Threshold(percent) > pr.lastPercent
       THEN [reader |-> [pr EXCEPT !.current = current, !.lastPercent = Threshold(percent)],
             updates |-> <<percent>>]
       ELSE [reader |-> [pr EXCEPT !.current = current], updates |-> <<>>]

ProgressReader_Finish(pr) == <<100>>

\* client.Do has answered 200 with a body and a content length
transfer_GET ==
    /\ cmd.op = ""
    /\ \E size \in TransferSizes : \E length \in ContentLengths(size) :
          cmd' = [op |-> "transfer", pc |-> "wrap", size |-> size,
                  ContentLength |-> length, read |-> 0, wrapped |-> FALSE,
                  progReader |-> NoReader, printed |-> <<>>, failed |-> FALSE]
    /\ UNCHANGED <<env, toolName, fsys, inodes, proc, hist, listing, registry>>

\* mutant: the reader is wrapped whenever a progress writer is set
transfer_wrap_anyLength ==
    /\ cmd.op = "transfer"
    /\ cmd.pc = "wrap"
    /\ cmd' = IF env.progress
              THEN [cmd EXCEPT !.pc = "Copy", !.wrapped = TRUE,
                               !.progReader = NewProgressReader(cmd.ContentLength)]
              ELSE [cmd EXCEPT !.pc = "Copy"]
    /\ UNCHANGED <<env, toolName, fsys, inodes, proc, hist, listing, registry>>

\* if t.ProgressWriter != nil && resp.ContentLength > 0
transfer_wrap ==
    /\ cmd.op = "transfer"
    /\ cmd.pc = "wrap"
    /\ cmd' = IF env.progress /\ cmd.ContentLength > 0
              THEN [cmd EXCEPT !.pc = "Copy", !.wrapped = TRUE,
                               !.progReader = NewProgressReader(cmd.ContentLength)]
              ELSE [cmd EXCEPT !.pc = "Copy"]
    /\ UNCHANGED <<env, toolName, fsys, inodes, proc, hist, listing, registry>>

\* io.Copy(writer, reader): a read of up to MaxChunk bytes, the end of the
\* body, or a failure of the read or of the write
transfer_Copy ==
    /\ cmd.op = "transfer"
    /\ cmd.pc = "Copy"
    /\ \/ \E n \in 1..MaxChunk :
             /\ cmd.read + n <= cmd.size
             /\ cmd' = IF cmd.wrapped
                       THEN LET r == ProgressReader_Read(cmd.progReader, n)
                            IN [cmd EXCEPT !.read = @ + n, !.progReader = r.reader,
                                           !.printed = @ \o r.updates]
                       ELSE [cmd EXCEPT !.read = @ + n]
       \/ /\ cmd.read = cmd.size
          /\ cmd' = [cmd EXCEPT !.pc = "Finish"]
       \/ cmd' = [cmd EXCEPT !.pc = "closeBody", !.failed = TRUE]
    /\ UNCHANGED <<env, toolName, fsys, inodes, proc, hist, listing, registry>>

\* if progReader != nil { progReader.Finish() }; what follows (Close,
\* checksum, Rename) writes nothing to the sink
transfer_Finish ==
    /\ cmd.op = "transfer"
    /\ cmd.pc = "Finish"
    /\ cmd' = IF cmd.wrapped
              THEN [cmd EXCEPT !.pc = "closeBody",
                               !.printed = @ \o ProgressReader_Finish(cmd.progReader)]
              ELSE [cmd EXCEPT !.pc = "closeBody"]
    /\ UNCHANGED <<env, toolName, fsys, inodes, proc, hist, listing, registry>>

\* the deferred resp.Body.Close()
transfer_closeBody ==
    /\ cmd.op = "transfer"
    /\ cmd.pc = "closeBody"
    /\ cmd' = [cmd EXCEPT !.pc = "closed"]
    /\ UNCHANGED <<env, toolName, fsys, inodes, proc, hist, listing, registry>>

InitProgress ==
    /\ toolName = "kubectl"
    /\ \E b \in BOOLEAN : InitEnv([ObserveEnv(toolName) EXCEPT !.progress = b])

NextProgress ==
    \/ transfer_GET
    \/ transfer_wrap
    \/ transfer_Copy
    \/ transfer_Finish
    \/ transfer_closeBody

SpecProgress == InitProgress /\ [][NextProgress]_vars

\* one shell and a cache in which the directory of the latest version is
\* there without the binary, as a download that failed after MkdirAll or a
\* removal of the binary alone leaves it
InitMiss ==
    /\ toolName \in {"kubectl", "cilium"}
    /\ env = ObserveEnv(toolName)
    /\ LET home == [q \in HomeDirs(env) |-> DirNode]
       IN fsys = MkdirAll(home, Dir(BinPath(DataDir(env, home), toolName, env.latest)))
    /\ inodes = EmptyFiles
    /\ proc = [p \in Procs |-> IdleProc]
    /\ hist = NoHist
    /\ listing = NoListing
    /\ registry = NewRegistry
    /\ cmd = NoCmd

NextMiss ==
    \/ Step(1)
    \/ CachedVersions

SpecMiss == InitMiss /\ [][NextMiss]_vars

\* one shell and a cache in which an earlier download has left its temp
\* file behind
Leftovers == {<<1>>, <<2, 2, 2>>}

InitLeftover ==
    /\ toolName \in {"kubectl", "cilium"}
    /\ env = ObserveEnv(toolName)
    /\ LET home == [q \in HomeDirs(env) |-> DirNode]
           destPath == BinPath(DataDir(env, home), toolName, env.latest)
           dirs == MkdirAll(home, Dir(destPath))
       IN fsys = [q \in DOMAIN dirs \cup {TmpPath(destPath)} |->
                     IF q \in DOMAIN dirs THEN dirs[q] ELSE FileNode(1)]
    /\ \E data \in Leftovers : inodes = [i \in {1} |-> [data |-> data, mode |-> Mode0644]]
    /\ proc = [p \in Procs |-> IdleProc]
    /\ hist = NoHist
    /\ listing = NoListing
    /\ registry = NewRegistry
    /\ cmd = NoCmd

SpecLeftover == InitLeftover /\ [][NextMiss]_vars

\* a kubectl cache of up to four versions, each with a binary of one or two
\* bytes, listed while binaries are removed
StatNames == {"latest", "v1.2.10", "v1.2.2x", "v1.2.3"}

StatLayouts == UNION {[S -> {1, 2}] : S \in SUBSET StatNames}

InitStat ==
    /\ toolName = "kubectl"
    /\ env = [xdg |-> "", home |-> Home, progress |-> FALSE, share |-> TRUE,
              latest |-> "v1.2.3", serves |-> {}, sums |-> {}]
    /\ \E lay \in StatLayouts :
          LET base == [q \in HomeDirs(env) |-> DirNode]
              toolDir == ToolDir(env, base, toolName)
              made == MkdirAll(base, toolDir)
              bins == {Join(toolDir, <<n, toolName>>) : n \in DOMAIN lay}
              dirs == {Join(toolDir, <<n>>) : n \in DOMAIN lay}
          IN /\ fsys = [q \in DOMAIN made \cup dirs \cup bins |->
                          IF q \in DOMAIN made THEN made[q]
                          ELSE IF q \in dirs THEN DirNode
                          ELSE FileNode(NameIno(q[Len(toolDir) + 1]))]
             /\ inodes = [i \in {NameIno(n) : n \in DOMAIN lay} |->
                            LET n == CHOOSE n \in DOMAIN lay : NameIno(n) = i
                            IN [data |-> [k \in 1..lay[n] |-> 1], mode |-> Mode0755]]
    /\ proc = [p \in Procs |-> IdleProc]
    /\ hist = NoHist
    /\ listing = NoListing
    /\ registry = NewRegistry
    /\ cmd = NoCmd

NextStat == CachedVersionsStat

SpecStat == InitStat /\ [][NextStat]_vars

\* compareVersions applied to the pairs of three version names, as the
\* comparison function of sort.Slice is; next to it, a listing of the cache
compareVersions_calls ==
    \E a, b, c \in VersionNames :
       /\ cmd.op = ""
       /\ cmd' = [NoCmd EXCEPT !.op = "compareVersions",
                               !.args = <<a, b, c>>,
                               !.out = [ab |-> compareVersions(a, b),
                                        ba |-> compareVersions(b, a),
                                        bc |-> compareVersions(b, c),
                                        ac |-> compareVersions(a, c)]]
       /\ UNCHANGED <<env, toolName, fsys, inodes, proc, hist, listing, registry>>

NextCompare ==
    \/ compareVersions_calls
    \/ CachedVersions

SpecCompare == InitStat /\ [][NextCompare]_vars

----------------------------------------------------------------------------
(* runToolsUpdate: "tools update", one step per call it makes. The command *)
(* keeps its place in cmd; Tool.Download runs as process 1.                *)

UpdateArgs == {<<>>, <<"kubectl">>, <<"kind", "kubectl">>, <<"helm">>}

ToolNames(tools) == [i \in DOMAIN tools |-> tools[i].Name]

\* the record of one iteration of the loop over the tools
UpdateEntry(c, did, err) ==
    [tool |-> c.tools[c.i], latest |-> c.latest, before |-> c.before, after |-> fsys,
     did |-> did, err |-> err]

\* the loop's "continue" and its end, or the return of err
UpdateNext(c, did, err) ==
    LET logged == [c EXCEPT !.log = Append(@, UpdateEntry(c, did, err))]
    IN IF err # Nil THEN [logged EXCEPT !.pc = "returned", !.err = err]
       ELSE IF c.i = Len(c.tools) THEN [logged EXCEPT !.pc = "returned"]
       ELSE [logged EXCEPT !.pc = "LatestVersion", !.i = @ + 1, !.latest = "",
                           !.before = fsys]

runToolsUpdate(args) ==
    /\ cmd.op = ""
    /\ LET tools == ToolNames(ResolveTools(NewRegistry, args))
       IN /\ cmd' = [op |-> "update", args |-> args, tools |-> tools, i |-> 1,
                     pc |-> IF tools = <<>> THEN "returned" ELSE "LatestVersion",
                     latest |-> "", before |-> fsys, log |-> <<>>, printed |-> <<>>,
                     err |-> Nil]
          /\ toolName' = IF tools = <<>> THEN toolName ELSE tools[1]
    /\ UNCHANGED <<env, fsys, inodes, proc, hist, listing, registry>>

\* latest, err := t.LatestVersion(ctx)
update_LatestVersion ==
    /\ cmd.op = "update"
    /\ cmd.pc = "LatestVersion"
    /\ \/ cmd' = UpdateNext(cmd, "", <<"failed to get latest version", toolName>>)
       \/ cmd' = [cmd EXCEPT !.pc = "CachedVersions", !.latest = env.latest]
    /\ UNCHANGED <<env, toolName, fsys, inodes, proc, hist, listing, registry>>

\* mutant: any cached version counts as the latest
update_CachedVersions_anyCached ==
    /\ cmd.op = "update"
    /\ cmd.pc = "CachedVersions"
    /\ LET r == cachedVersions(env, fsys, inodes, toolName)
       IN cmd' = IF r.err # Nil
                 THEN UpdateNext(cmd, "", <<"failed to get cached versions", toolName>> \o r.err)
                 ELSE IF r.versions # <<>>
                 THEN [cmd EXCEPT !.pc = "write"]
                 ELSE [cmd EXCEPT !.pc = "Download"]
    /\ UNCHANGED <<env, toolName, fsys, inodes, proc, hist, listing, registry>>

\* versions, err := t.CachedVersions() and the search for latest in them
update_CachedVersions ==
    /\ cmd.op = "update"
    /\ cmd.pc = "CachedVersions"
    /\ LET r == cachedVersions(env, fsys, inodes, toolName)
       IN cmd' = IF r.err # Nil
                 THEN UpdateNext(cmd, "", <<"failed to get cached versions", toolName>> \o r.err)
                 ELSE IF \E j \in DOMAIN r.versions : r.versions[j].Version = cmd.latest
                 THEN [cmd EXCEPT !.pc = "write"]
                 ELSE [cmd EXCEPT !.pc = "Download"]
    /\ UNCHANGED <<env, toolName, fsys, inodes, proc, hist, listing, registry>>

\* the "already cached" line; then the next tool
update_write ==
    /\ cmd.op = "update"
    /\ cmd.pc = "write"
    /\ \/ LET c == UpdateNext(cmd, "already cached", Nil)
          IN /\ cmd' = [c EXCEPT !.printed =
                           Append(@, [tool |-> toolName, version |-> cmd.latest,
                                      msg |-> "already cached"])]
             /\ toolName' = IF c.pc = "returned" THEN toolName ELSE c.tools[c.i]
       \/ /\ cmd' = UpdateNext(cmd, "write", <<"failed to write output">>)
          /\ UNCHANGED toolName
    /\ UNCHANGED <<env, fsys, inodes, proc, hist, listing, registry>>

\* t.Download(ctx), step by step
update_Download ==
    /\ cmd.op = "update"
    /\ cmd.pc = "Download"
    /\ \/ Download(1)
       \/ prepareExec_DataDir(1)
       \/ prepareExec_VersionFunc(1)
       \/ prepareExec_Exists(1)
       \/ prepareExec_writeDownloading(1)
       \/ download_MkdirAll(1)
       \/ download_fetchChecksum(1)
       \/ download_GET(1)
       \/ download_Create(1)
       \/ download_Copy(1)
       \/ download_Close(1)
       \/ download_compare(1)
       \/ download_Rename(1)
       \/ download_defer(1)
       \/ prepareExec_Chmod(1)
       \/ prepareExec_writeDownloaded(1)

\* Download has returned: its error ends the command, else the next tool
update_Downloaded ==
    /\ cmd.op = "update"
    /\ cmd.pc = "Download"
    /\ proc[1].pc = "done"
    /\ LET c == UpdateNext(cmd, "Download",
                           IF proc[1].err = Nil THEN Nil
                           ELSE <<"failed to download", toolName>> \o proc[1].err)
       IN /\ cmd' = c
          /\ toolName' = IF c.pc = "returned" THEN toolName ELSE c.tools[c.i]
    /\ proc' = [proc EXCEPT ![1] = IdleProc]
    /\ UNCHANGED <<env, fsys, inodes, hist, listing, registry>>

\* upstream publishes a newer version while the command runs
UpstreamRelease ==
    /\ cmd.op = "update"
    /\ cmd.pc # "returned"
    /\ env.latest = "v1.2.3"
    /\ env' = [env EXCEPT !.latest = "v1.2.10"]
    /\ UNCHANGED <<toolName, fsys, inodes, proc, hist, listing, registry, cmd>>

\* the caches "tools update" may find: for each registered tool nothing, an
\* older version or the version upstream calls the latest
UpdateCaches == [{"kubectl", "kind"} -> {"", "v1.2.2", "v1.2.3"}]

InitUpdate ==
    /\ toolName = "kubectl"
    /\ env = [ObserveEnv("kubectl") EXCEPT !.progress = TRUE]
    /\ \E cache \in UpdateCaches :
          LET base == [q \in HomeDirs(env) |-> DirNode]
              bin(t) == BinPath(DataDir(env, base), t, cache[t])
              tools == {t \in DOMAIN cache : cache[t] # ""}
              dirs == UNION {DOMAIN MkdirAll(base, Dir(bin(t))) : t \in tools}
              ino(t) == IF t = "kubectl" THEN 1 ELSE 2
          IN /\ fsys = [q \in DOMAIN base \cup dirs \cup {bin(t) : t \in tools} |->
                          IF q \in DOMAIN base \cup dirs THEN DirNode
                          ELSE FileNode(ino(CHOOSE t \in tools : bin(t) = q))]
             /\ inodes = [i \in {ino(t) : t \in tools} |->
                            [data |-> ObserveBinary, mode |-> Mode0755]]
    /\ proc = [p \in Procs |-> IdleProc]
    /\ hist = NoHist
    /\ listing = NoListing
    /\ registry = NewRegistry
    /\ cmd = NoCmd

NextUpdate ==
    \/ \E args \in UpdateArgs : runToolsUpdate(args)
    \/ update_LatestVersion
    \/ update_CachedVersions
    \/ update_write
    \/ update_Download
    \/ update_Downloaded
    \/ UpstreamRelease

SpecUpdate == InitUpdate /\ [][NextUpdate]_vars

\* resolveTools on its own and inside the three commands. "tools update" is
\* run on names that are all unknown, for which it returns at once
ResolveArgs ==
    {<<>>, <<"kubectl">>, <<"kind", "kubectl">>, <<"kubectl", "kind">>, <<"kubectl", "kubectl">>,
     <<"helm">>, <<"helm", "kubectl">>, <<"helm", "cilium">>}

UnknownArgs ==
    {a \in ResolveArgs : a # <<>> /\ \A i \in DOMAIN a : RegistryGet(NewRegistry, a[i]) = NoTool}

resolveTools_call(args) ==
    /\ cmd.op = ""
    /\ cmd' = Done("resolveTools", args, FALSE, Nil, ToolNames(ResolveTools(registry, args)), <<>>)
    /\ UNCHANGED <<env, toolName, fsys, inodes, proc, hist, listing, registry>>

NextResolve ==
    \/ \E args \in ResolveArgs : resolveTools_call(args)
    \/ \E args \in ResolveArgs : runToolsInfo(args)
    \/ \E args \in ResolveArgs, old \in BOOLEAN : runToolsClean(args, old)
    \/ \E args \in UnknownArgs : runToolsUpdate(args)

SpecResolve == InitClean /\ [][NextResolve]_vars

----------------------------------------------------------------------------
(* util.FormatBytes and formatBytes of the tools command. An int64 byte    *)
(* count is the sequence of its digits in base 1024, the lowest first and  *)
(* no leading zero: bytes / unit drops the lowest digit, bytes >= unit is  *)
(* "two digits or more", div *= unit puts a zero below. Seven digits, the  *)
(* highest at most 7, are the counts below 2^63; div stays below 2^63. The *)
(* result keeps the operands of the Sprintf: the count, the divisor and    *)
(* the unit. An index outside the table of units is a run-time panic.      *)

unit == 1024
Int64Digits == 7

units == <<"KiB", "MiB", "GiB", "TiB">>

Digits1024 == {0, 1, 7, unit - 1}

ByteCounts ==
    {n \in UNION {[1..k -> Digits1024] : k \in 0..Int64Digits} :
        /\ n # <<>> => n[Len(n)] # 0
        /\ Len(n) = Int64Digits => n[Len(n)] <= 7}

\* for n := bytes / unit; n >= unit; n /= unit { div *= unit; exp++ }
RECURSIVE unitLoop(_, _, _)
unitLoop(n, div, exp) ==
    IF Len(n) >= 2 THEN unitLoop(Tail(n), <<0>> \o div, exp + 1)
    ELSE [div |-> div, exp |-> exp]

formatBytes(bytes) ==
    IF Len(bytes) <= 1
    THEN [err |-> Nil, out |-> [bytes |-> bytes, div |-> <<1>>, unit |-> "B"]]
    ELSE LET l == unitLoop(Tail(bytes), <<0, 1>>, 0)
         IN IF l.exp + 1 \in DOMAIN units
            THEN [err |-> Nil, out |-> [bytes |-> bytes, div |-> l.div, unit |-> units[l.exp + 1]]]
            ELSE [err |-> <<"index out of range", l.exp, Len(units)>>, out |-> <<>>]

FormatBytes(bytes) ==
    IF Len(bytes) <= 1
    THEN [err |-> Nil, out |-> [bytes |-> bytes, div |-> <<1>>, unit |-> "B"]]
    ELSE LET l == unitLoop(Tail(bytes), <<0, 1>>, 0)
         IN IF l.exp + 1 \in DOMAIN units
            THEN [err |-> Nil, out |-> [bytes |-> bytes, div |-> l.div, unit |-> units[l.exp + 1]]]
            ELSE [err |-> <<"index out of range", l.exp, Len(units)>>, out |-> <<>>]

formatBytes_call(bytes) ==
    /\ cmd.op = ""
    /\ cmd' = Done("formatBytes", bytes, FALSE, formatBytes(bytes).err, formatBytes(bytes).out, <<>>)
    /\ UNCHANGED <<env, toolName, fsys, inodes, proc, hist, listing, registry>>

FormatBytes_call(bytes) ==
    /\ cmd.op = ""
    /\ cmd' = Done("FormatBytes", bytes, FALSE, FormatBytes(bytes).err, FormatBytes(bytes).out, <<>>)
    /\ UNCHANGED <<env, toolName, fsys, inodes, proc, hist, listing, registry>>

InitFormat ==
    /\ toolName = "kubectl"
    /\ env = [xdg |-> "", home |-> Home, progress |-> FALSE, share |-> TRUE,
              latest |-> "v1.2.3", serves |-> {}, sums |-> {}]
    /\ fsys = [q \in HomeDirs(env) |-> DirNode]
    /\ inodes = <<>>
    /\ proc = [p \in Procs |-> IdleProc]
    /\ hist = NoHist
    /\ listing = NoListing
    /\ registry = NewRegistry
    /\ cmd = NoCmd

NextFormat ==
    \/ \E bytes \in ByteCounts : formatBytes_call(bytes)
    \/ \E bytes \in ByteCounts : FormatBytes_call(bytes)

SpecFormat == InitFormat /\ [][NextFormat]_vars

----------------------------------------------------------------------------
(* Vocabulary of the claims.                                               *)

Index(s, x) == IF x \in Range(s) THEN CHOOSE i \in DOMAIN s : s[i] = x ELSE 0
Did(p, ev) == ev \in Range(proc[p].trace)

\* download was called and has returned to prepareExec or Download
DownloadReturned(p) ==
    /\ Did(p, "MkdirAll")
    /\ proc[p].pc \in {"writeDownloaded", "Chmod", "syscallExec", "replaced", "done"}

tmpFile(p) == TmpPath(proc[p].binPath)

\* what download returns when the disk or the network fails under it
EnvFaults ==
    { <<"failed to create directory">>,
      <<"failed to fetch checksum", "unexpected status code: 404">>,
      <<"failed to fetch checksum", "unexpected status code: 500">>,
      <<"failed to fetch checksum", "transport error">>,
      <<"unexpected status code: 404">>, <<"unexpected status code: 500">>,
      <<"transport error">>,
      <<"failed to fetch checksum", "context canceled">>, <<"context canceled">>,
      <<"create failed">>, <<"copy failed">>, <<"close failed">>, <<"rename failed">>,
      ExtractErr(<<"failed to open archive">>),
      ExtractErr(<<"failed to create output file">>),
      ExtractErr(<<"close failed">>),
      ExtractErr(<<"remove failed">>) }

\* prepareExec has returned without error
Prepared(p) == proc[p].op = "Exec" /\ proc[p].pc \in {"syscallExec", "replaced"}

----------------------------------------------------------------------------
----------------------------------------------------------------------------
(* C2: round trip. As claimed, for every tool: when the checksum document  *)
(* names the SHA-256 of the content C served with status 200, download     *)
(* returns no error, destPath's directory exists and destPath holds C.     *)
C2_RoundTrip_AsClaimed ==
    \A p \in Procs :
        ( /\ DownloadReturned(p)
          /\ proc[p].ret \notin EnvFaults
          /\ proc[p].expected = Sha256Hex(proc[p].served) )
        => /\ proc[p].ret = Nil
           /\ IsDir(fsys, Dir(proc[p].binPath))
           /\ Exists(fsys, proc[p].binPath)
           /\ DataAt(fsys, inodes, proc[p].binPath) = proc[p].served

(* C2, amended: the same for a tool whose download URL does not end in     *)
(* ".tar.gz" (for an archive URL the file holds the extracted entry, or    *)
(* the extraction fails).                                                  *)
C2_RoundTrip ==
    \A p \in Procs :
        ( /\ DownloadReturned(p)
          /\ proc[p].ret \notin EnvFaults
          /\ proc[p].expected = Sha256Hex(proc[p].served)
          /\ ~isArchive(proc[p].version) )
        => /\ proc[p].ret = Nil
           /\ IsDir(fsys, Dir(proc[p].binPath))
           /\ Exists(fsys, proc[p].binPath)
           /\ DataAt(fsys, inodes, proc[p].binPath) = proc[p].served

C2_Witness ==
    \E p \in Procs :
        /\ DownloadReturned(p)
        /\ proc[p].ret = Nil
        /\ ~isArchive(proc[p].version)
        /\ Len(proc[p].served) = MaxLen
        /\ DataAt(fsys, inodes, proc[p].binPath) = proc[p].served

----------------------------------------------------------------------------
----------------------------------------------------------------------------
(* C5: idempotent caching. An invocation (launcher or Download) that       *)
(* follows a successful one for the same version finds the binary, asks    *)
(* for neither the checksum nor the download URL, writes no progress line  *)
(* and leaves the cached bytes as they were; the two invocations together  *)
(* made one download when the first started from a miss.                   *)
C5_IdempotentCaching ==
    \A p \in Procs :
        ( /\ hist.ok
          /\ hist.version = proc[p].version
          /\ Did(p, "Exists") )
        => /\ proc[p].hit
           /\ ~Did(p, "fetchChecksum") /\ ~Did(p, "GET")
           /\ ~Did(p, "write Downloading") /\ ~Did(p, "write downloaded")
           /\ Exists(fsys, proc[p].binPath)
           /\ DataAt(fsys, inodes, proc[p].binPath) = proc[p].cached.data
           /\ hist.gets + Count(proc[p].trace, "GET") = (IF hist.hit THEN 0 ELSE 1)

C5_Witness ==
    \E p \in Procs :
        /\ hist.ok /\ ~hist.hit /\ hist.gets = 1
        /\ hist.version = proc[p].version
        /\ proc[p].pc = "replaced"
        /\ proc[p].hit
        /\ env.progress
        /\ Len(proc[p].cached.data) = MaxLen

----------------------------------------------------------------------------
(* C6: every launcher run goes data dir, version, cache check, download    *)
(* (on a miss only), chmod, exec. Exec is called only with the version     *)
(* resolved, the binary at <dataDir>/kdev/<tool>/<version>/<tool> and its  *)
(* mode set; a run that failed before exec never called it.                *)
Before(p, a, b) == Did(p, b) => Did(p, a) /\ Index(proc[p].trace, a) < Index(proc[p].trace, b)

DownloadSteps ==
    {"write Downloading", "MkdirAll", "fetchChecksum", "GET", "Create", "Rename",
     "Remove", "write downloaded"}

C6_LauncherOrder ==
    \A p \in Procs :
        proc[p].op = "Exec"
        => /\ Before(p, "DataDir", "VersionFunc")
           /\ Before(p, "VersionFunc", "Exists")
           /\ Before(p, "Exists", "Chmod")
           /\ Before(p, "Chmod", "Exec")
           /\ \A ev \in DownloadSteps :
                 /\ Before(p, "Exists", ev)
                 /\ Did(p, ev) => ~proc[p].hit
                 /\ Did(p, ev) /\ Did(p, "Chmod")
                       => Index(proc[p].trace, ev) < Index(proc[p].trace, "Chmod")
           /\ Did(p, "Exec") <=> proc[p].execd # NoExec
           /\ Did(p, "Exec")
                 => /\ proc[p].version = env.latest
                    /\ proc[p].execd.path =
                          BinPath(DataDir(env, fsys), toolName, proc[p].version)
                    /\ Exists(fsys, proc[p].execd.path)
                    /\ ModeAt(fsys, inodes, proc[p].execd.path) = Mode0755
           /\ proc[p].pc = "done" /\ proc[p].err # <<"exec failed">> => ~Did(p, "Exec")

C6_Witness ==
    \E p \in Procs :
        /\ proc[p].op = "Exec"
        /\ proc[p].pc = "replaced"
        /\ ~proc[p].hit
        /\ Did(p, "GET")

----------------------------------------------------------------------------
(* C7: every prepareExec that returns without error leaves the binary with *)
(* mode 0755, whatever its mode was, on a cache hit as after a download;   *)
(* on a binary that has it already nothing changes.                        *)
C7_AlwaysExecutable ==
    \A p \in Procs :
        Prepared(p)
        => /\ Exists(fsys, proc[p].binPath)
           /\ ModeAt(fsys, inodes, proc[p].binPath) = Mode0755
           /\ proc[p].hit => DataAt(fsys, inodes, proc[p].binPath) = proc[p].cached.data

C7_Witness ==
    \E p \in Procs :
        /\ Prepared(p)
        /\ proc[p].hit
        /\ proc[p].cached.mode = Mode0644

----------------------------------------------------------------------------
(* C8: exec gets the tool name followed by the forwarded arguments, in     *)
(* order and unchanged, and the path <dataDir>/kdev/<tool>/<version>/<tool>*)
C8_ExecArgs ==
    \A p \in Procs :
        proc[p].execd # NoExec
        => /\ Len(proc[p].execd.argv) = Len(proc[p].args) + 1
           /\ proc[p].execd.argv[1] = toolName
           /\ \A i \in 1..Len(proc[p].args) : proc[p].execd.argv[i + 1] = proc[p].args[i]
           /\ proc[p].execd.path =
                 Join(DataDir(env, fsys), <<"kdev", toolName, env.latest, toolName>>)

C8_Witness ==
    \E p \in Procs :
        /\ proc[p].pc = "replaced"
        /\ Len(proc[p].args) = MaxArgs

----------------------------------------------------------------------------
(* C3: two concurrent invocations for the same tool and version do not     *)
(* corrupt the cache: once both have returned, a file at destPath holds    *)
(* exactly the content whose SHA-256 is the expected checksum.             *)
BothReturned == \A p \in Procs : proc[p].pc \in {"done", "replaced"}

C3_NoCorruption ==
    \A p \in Procs :
        ( /\ BothReturned
          /\ proc[p].binPath # <<>>
          /\ Exists(fsys, proc[p].binPath) )
        => Sha256Hex(DataAt(fsys, inodes, proc[p].binPath))
              \in {fetchChecksum(body) : body \in env.sums}

----------------------------------------------------------------------------
(* C9: CachedVersions returns an entry for version v if and only if        *)
(* <cacheRoot>/<tool>/v is a directory and <cacheRoot>/<tool>/v/<tool> is  *)
(* a regular file; files directly under the tool directory and version     *)
(* directories without the binary give no entry; an entry's path and size  *)
(* are those of the binary.                                                *)
IsRegularFile(path) == path \in DOMAIN fsys /\ fsys[path].dir = FALSE
IsDirectory(path) == path \in DOMAIN fsys /\ fsys[path].dir = TRUE

EntriesFor(v) == {i \in DOMAIN listing.versions : listing.versions[i].Version = v}

C9_EntryIffBinary ==
    ( listing.called /\ listing.err = Nil )
    => LET root == Join(DataDir(env, fsys), <<"kdev">>)
       IN /\ \A v \in VersionNames :
                /\ Cardinality(EntriesFor(v)) =
                      (IF /\ IsDirectory(Join(root, <<toolName, v>>))
                          /\ IsRegularFile(Join(root, <<toolName, v, toolName>>))
                       THEN 1 ELSE 0)
                /\ \A i \in EntriesFor(v) :
                      /\ listing.versions[i].Path = Join(root, <<toolName, v, toolName>>)
                      /\ listing.versions[i].Size =
                            Len(inodes[fsys[Join(root, <<toolName, v, toolName>>)].ino].data)
          /\ \A i \in DOMAIN listing.versions : listing.versions[i].Version \in VersionNames

C9_Witness ==
    LET root == Join(DataDir(env, fsys), <<"kdev">>)
    IN /\ listing.called
       /\ Len(listing.versions) = 1
       /\ listing.versions[1].Size = MaxLen
       /\ \E v \in VersionNames : IsRegularFile(Join(root, <<toolName, v>>))
       /\ \E v \in VersionNames :
             /\ IsDirectory(Join(root, <<toolName, v>>))
             /\ IsDirectory(Join(root, <<toolName, v, toolName>>))

----------------------------------------------------------------------------
(* C10: CachedVersions returns its entries in descending version order for *)
(* every set of version directory names: for all positions i < j the       *)
(* version at i is not smaller than the version at j, two versions being   *)
(* compared as semantic versions when both parse and as raw strings        *)
(* otherwise.                                                              *)
Smaller(a, b) ==
    IF ~NewVersionErr(a) /\ ~NewVersionErr(b)
    THEN \E k \in 1..3 :
            /\ NewVersion(a)[k] < NewVersion(b)[k]
            /\ \A j \in 1..(k - 1) : NewVersion(a)[j] = NewVersion(b)[j]
    ELSE StringLess(a, b)

C10_Descending ==
    listing.called
    => \A i, j \in DOMAIN listing.versions :
          i < j => ~Smaller(listing.versions[i].Version, listing.versions[j].Version)

----------------------------------------------------------------------------
(* C11: absence is not failure. With the data directory resolved,          *)
(* CachedVersions on a tool whose cache directory does not exist returns   *)
(* an empty list and no error; CleanVersion on a version directory that    *)
(* does not exist and CleanAll on a tool directory that does not exist     *)
(* return no error and leave the filesystem as it was.                     *)
Absent(f, path) == path \notin DOMAIN f

C11_AbsenceIsNoFailure ==
    ~DataDirErr(env, fsys)
    => /\ ( listing.called /\ Absent(fsys, ToolDir(env, fsys, toolName)) )
             => listing.err = Nil /\ listing.versions = <<>>
       /\ ( /\ cmd.op = "CleanVersion"
            /\ Absent(cmd.fs0, Join(ToolDir(env, cmd.fs0, toolName), cmd.args)) )
             => cmd.err = Nil /\ fsys = cmd.fs0 /\ inodes = cmd.ino0
       /\ ( cmd.op = "CleanAll" /\ Absent(cmd.fs0, ToolDir(env, cmd.fs0, toolName)) )
             => cmd.err = Nil /\ fsys = cmd.fs0 /\ inodes = cmd.ino0

C11_Witness ==
    /\ cmd.op = "CleanAll"
    /\ Absent(cmd.fs0, ToolDir(env, cmd.fs0, toolName))
    /\ IsDir(fsys, ToolDir(env, fsys, OtherTool))
    /\ listing.called

----------------------------------------------------------------------------
(* C12: CleanVersion(v) removes exactly version v, for every version       *)
(* string v: after it returns without error CachedVersions has no entry    *)
(* for v, and every other cached version of the tool and every cached      *)
(* version of every other tool is still there with its content.            *)
CachedBefore(t) == Range(cachedVersions(env, cmd.fs0, cmd.ino0, t).versions)
CachedAfter(t) == Range(cachedVersions(env, fsys, inodes, t).versions)

\* the entries of tool t that were cached before are cached now, unchanged
StillCached(t, entries) ==
    \A c \in entries :
        /\ c \in CachedAfter(t)
        /\ DataAt(fsys, inodes, c.Path) = DataAt(cmd.fs0, cmd.ino0, c.Path)

C12_RemovesExactlyVersion ==
    ( cmd.op = "CleanVersion" /\ cmd.err = Nil )
    => /\ \A c \in CachedAfter(toolName) : c.Version # cmd.args[1]
       /\ listing.called => \A i \in DOMAIN listing.versions :
                                listing.versions[i].Version # cmd.args[1]
       /\ StillCached(toolName, {c \in CachedBefore(toolName) : c.Version # cmd.args[1]})
       /\ \A t \in DOMAIN registry \ {toolName} : StillCached(t, CachedBefore(t))

----------------------------------------------------------------------------
(* C13: CleanAll removes the tool's whole cache root: after it returns     *)
(* without error the tool directory does not exist, version directories    *)
(* without a binary included, CachedVersions is empty, and the caches of   *)
(* all other tools are as they were.                                       *)
C13_RemovesWholeToolDir ==
    ( cmd.op = "CleanAll" /\ cmd.err = Nil )
    => LET toolDir == ToolDir(env, cmd.fs0, toolName)
       IN /\ \A q \in DOMAIN fsys : ~IsPrefix(toolDir, q)
          /\ CachedAfter(toolName) = {}
          /\ listing.called => listing.err = Nil /\ listing.versions = <<>>
          /\ \A q \in DOMAIN cmd.fs0 :
                ~IsPrefix(toolDir, q) => q \in DOMAIN fsys /\ fsys[q] = cmd.fs0[q]
          /\ \A t \in DOMAIN registry \ {toolName} : StillCached(t, CachedBefore(t))

C13_Witness ==
    /\ cmd.op = "CleanAll"
    /\ cmd.err = Nil
    /\ listing.called
    /\ CachedBefore(toolName) # {}
    /\ CachedBefore(OtherTool) # {}
    /\ \E v \in VersionNames :
          /\ IsDir(cmd.fs0, Join(ToolDir(env, cmd.fs0, toolName), <<v>>))
          /\ Absent(cmd.fs0, Join(ToolDir(env, cmd.fs0, toolName), <<v, toolName>>))

----------------------------------------------------------------------------
(* C14: "tools clean --old" keeps the newest cached version of each        *)
(* selected tool and removes the superseded ones: after it succeeds the    *)
(* listing of the tool is exactly the entry that was first before the      *)
(* command; a tool with no or one cached version loses nothing, and when   *)
(* no selected tool has more than one nothing is removed or printed.       *)
Selected == {ResolveTools(registry, cmd.args)[i].Name :
                i \in DOMAIN ResolveTools(registry, cmd.args)}

ListedBefore(t) == cachedVersions(env, cmd.fs0, cmd.ino0, t).versions

ListedAfter(t) == cachedVersions(env, fsys, inodes, t).versions

C14_CleanOldKeepsNewest ==
    ( cmd.op = "runToolsClean" /\ cmd.old /\ cmd.err = Nil )
    => /\ \A t \in Selected :
            /\ ListedAfter(t) = IF ListedBefore(t) = <<>> THEN <<>>
                                ELSE <<ListedBefore(t)[1]>>
            /\ Len(ListedBefore(t)) <= 1
                  => \A q \in DOMAIN cmd.fs0 :
                        IsPrefix(ToolDir(env, cmd.fs0, t), q)
                           => q \in DOMAIN fsys /\ fsys[q] = cmd.fs0[q]
       /\ ( \A t \in Selected : Len(ListedBefore(t)) <= 1 )
             => fsys = cmd.fs0 /\ inodes = cmd.ino0 /\ cmd.printed = <<>>

C14_Witness ==
    /\ cmd.op = "runToolsClean"
    /\ cmd.old
    /\ cmd.err = Nil
    /\ Selected = {"kubectl", "kind"}
    /\ Len(ListedBefore("kubectl")) = 3
    /\ Len(ListedBefore("kind")) = 2
    /\ cmd.printed # <<>>
    /\ fsys # cmd.fs0

----------------------------------------------------------------------------
(* C15: a failing progress sink is fatal. When the write of the            *)
(* "Downloading" line fails, the launcher and Download return "failed to   *)
(* write progress" with no request for the checksum or the binary made and *)
(* no file or directory created; when the write of the "downloaded         *)
(* successfully" line fails, the error is returned and exec is not         *)
(* reached. Without a progress sink nothing is written and no such error   *)
(* occurs.                                                                 *)
WriteFailed(p, line) ==
    /\ proc[p].pc = "done"
    /\ proc[p].err # Nil
    /\ proc[p].trace # <<>>
    /\ proc[p].trace[Len(proc[p].trace)] = line

C15_AfterFailedWrite ==
    /\ WriteFailed(1, "write Downloading")
          => /\ proc[1].err = <<"failed to write progress">>
             /\ proc[1].trace = <<"DataDir", "VersionFunc", "Exists", "write Downloading">>
             /\ proc[1].execd = NoExec
    /\ WriteFailed(1, "write downloaded")
          => /\ proc[1].err = <<"failed to write progress">>
             /\ ~Did(1, "Exec")
             /\ proc[1].execd = NoExec
    /\ ~env.progress
          => /\ ~Did(1, "write Downloading")
             /\ ~Did(1, "write downloaded")
             /\ proc[1].err # <<"failed to write progress">>

\* the steps "DataDir", "VersionFunc", "Exists" and "write Downloading"
\* leave the disk alone
C15_NothingCreated ==
    proc[1].pc \in {"idle", "DataDir", "VersionFunc", "Exists", "writeDownloading"}
       => UNCHANGED <<fsys, inodes>>

C15_ProgressFailureIsFatal == []C15_AfterFailedWrite /\ [][C15_NothingCreated]_vars

C15_Witness ==
    /\ WriteFailed(1, "write Downloading")
    /\ proc[1].op = "Download"
    /\ env.progress

----------------------------------------------------------------------------
(* C16: download requests the binary only after the checksum document was  *)
(* fetched. When the fetch of the checksum fails, on a transport error or  *)
(* a status other than 200, download returns "failed to fetch checksum",   *)
(* no request for the binary is made, and neither destPath.tmp nor         *)
(* destPath is created.                                                    *)
ChecksumFetchFailed(p) ==
    /\ proc[p].pc = "done"
    /\ proc[p].err # Nil
    /\ proc[p].trace # <<>>
    /\ proc[p].trace[Len(proc[p].trace)] = "fetchChecksum"

C16_ChecksumBeforeBinary ==
    /\ Did(1, "GET")
          => /\ Did(1, "fetchChecksum")
             /\ Index(proc[1].trace, "fetchChecksum") < Index(proc[1].trace, "GET")
    /\ ChecksumFetchFailed(1)
          => /\ proc[1].ret # Nil
             /\ proc[1].ret[1] = "failed to fetch checksum"
             /\ Tail(proc[1].ret) \in {<<"transport error">>,
                                       <<"unexpected status code: 404">>,
                                       <<"unexpected status code: 500">>}
             /\ proc[1].err = <<"failed to download">> \o proc[1].ret
             /\ ~Did(1, "GET")
             /\ ~Did(1, "Create")
             /\ Absent(fsys, tmpFile(1))
             /\ Absent(fsys, proc[1].binPath)

C16_Witness ==
    /\ ChecksumFetchFailed(1)
    /\ proc[1].ret = <<"failed to fetch checksum", "unexpected status code: 404">>
    /\ IsDir(fsys, Dir(proc[1].binPath))

----------------------------------------------------------------------------
(* C17: fetchChecksum returns, for a 200 response, the first token of the  *)
(* body delimited by white space ("HEX  filename" and "HEX\n" both give    *)
(* HEX), the empty string without error for a body that is empty or white  *)
(* space only, and an error carrying the status code for a response with   *)
(* any other status.                                                       *)
AllSpace(s) == \A i \in DOMAIN s : IsSpace(s[i])

\* tok is the first maximal run of characters of body that are not white space
IsFirstToken(body, tok) ==
    /\ tok # <<>>
    /\ \A i \in DOMAIN tok : ~IsSpace(tok[i])
    /\ \E i \in DOMAIN body :
          /\ AllSpace(Take(body, i - 1))
          /\ SubSeq(body, i, i + Len(tok) - 1) = tok
          /\ i + Len(tok) <= Len(body) => IsSpace(body[i + Len(tok)])

C17_FirstToken ==
    cmd.op = "fetchChecksum" /\ ~cmd.args[1].failed
    => LET resp == cmd.args[1]
           got == cmd.out[1]
       IN /\ resp.status = StatusOK /\ AllSpace(resp.body)
                => cmd.err = Nil /\ got = <<>>
          /\ resp.status = StatusOK /\ ~AllSpace(resp.body)
                => cmd.err = Nil /\ IsFirstToken(resp.body, got)
          /\ resp.status = StatusOK
             /\ resp.body \in {<<HexChar(<<1>>), Chr(" "), Chr(" ")>> \o <<Chr("f")>>,
                               <<HexChar(<<1>>), Chr("\n")>>}
                => got = Sha256Hex(<<1>>)
          /\ resp.status = 404 => cmd.err = <<"unexpected status code: 404">>
          /\ resp.status = 500 => cmd.err = <<"unexpected status code: 500">>

C17_Witness ==
    /\ cmd.op = "fetchChecksum"
    /\ cmd.args[1] = Response(StatusOK, <<HexChar(<<1>>), Chr(" "), Chr(" "), Chr("f")>>)
    /\ cmd.out = <<Sha256Hex(<<1>>)>>
    /\ cmd.err = Nil

----------------------------------------------------------------------------
(* C18: DataDir picks the cache root by strict priority: XDG_DATA_HOME     *)
(* verbatim when it is set and not empty; else <home>/.local/share when    *)
(* that path is a directory; else <home>/.kdev. It fails only when the     *)
(* home directory is unknown, and it changes nothing on the filesystem.    *)
C18_DataDirPriority ==
    cmd.op = "DataDir"
    => LET share == <<env.home, ".local", "share">>
           shareIsDir == share \in DOMAIN cmd.fs0 /\ cmd.fs0[share].dir
       IN /\ env.xdg # "" => cmd.err = Nil /\ cmd.out = <<<<env.xdg>>>>
          /\ env.xdg = "" /\ env.home # "" /\ shareIsDir
                => cmd.err = Nil /\ cmd.out = <<share>>
          /\ env.xdg = "" /\ env.home # "" /\ ~shareIsDir
                => cmd.err = Nil /\ cmd.out = <<<<env.home, ".kdev">>>>
          /\ cmd.err # Nil <=> env.xdg = "" /\ env.home = ""
          /\ fsys = cmd.fs0
          /\ inodes = cmd.ino0

C18_Witness ==
    /\ cmd.op = "DataDir"
    /\ env.xdg = ""
    /\ Exists(fsys, <<env.home, ".local", "share">>)
    /\ cmd.out = <<<<Home, ".kdev">>>>

----------------------------------------------------------------------------
(* C19: the registry is a fixed set. Get(name) returns a tool exactly when *)
(* name is a registered name, nil otherwise; All() returns the registered  *)
(* names in ascending order; AllTools() returns one tool per registered    *)
(* name, ascending by name; no operation adds or removes a tool.           *)
Registered == {"kubectl", "kind"}

Ascending(names) ==
    \A i, j \in DOMAIN names : i < j => StringLess(names[i], names[j])

----------------------------------------------------------------------------
(* C20: archive extraction. When the download URL ends in ".tar.gz", the   *)
(* checksum matches the archive and the archive contains an entry whose    *)
(* base name equals the tool name, download succeeds (the disk and the     *)
(* network not failing under it), the file at destPath holds exactly the   *)
(* bytes of that entry, the first one when several match, and              *)
(* destPath.tmp is gone.                                                   *)
ArchiveEntries == [name : {NameTool, NameOther}, data : {<<1>>, <<2>>}]

EntryLists == UNION {[1..n -> ArchiveEntries] : n \in 0..2}

\* the entries of a well-formed archive that holds one for the tool
ToolArchives == {es \in EntryLists : \E i \in DOMAIN es : es[i].name = NameTool}

FirstToolEntry(es) ==
    es[CHOOSE i \in DOMAIN es :
          /\ es[i].name = NameTool
          /\ \A j \in 1..(i - 1) : es[j].name # NameTool]

C20_ArchiveExtraction ==
    \A p \in Procs :
        ( /\ DownloadReturned(p)
          /\ isArchive(proc[p].version)
          /\ proc[p].expected = Sha256Hex(proc[p].served)
          /\ proc[p].ret \notin EnvFaults )
        => \A es \in ToolArchives :
              proc[p].served = TarGz(es)
              => /\ proc[p].ret = Nil
                 /\ Exists(fsys, proc[p].binPath)
                 /\ DataAt(fsys, inodes, proc[p].binPath) = FirstToolEntry(es).data
                 /\ Absent(fsys, tmpFile(p))

C20_Witness ==
    /\ DownloadReturned(1)
    /\ isArchive(proc[1].version)
    /\ proc[1].ret = Nil
    /\ proc[1].served = TarGz(<<[name |-> NameOther, data |-> <<2>>],
                                [name |-> NameTool, data |-> <<1>>]>>)
    /\ DataAt(fsys, inodes, proc[1].binPath) = <<1>>
    /\ Absent(fsys, tmpFile(1))

----------------------------------------------------------------------------
(* C21: when an archive that passed the checksum holds no entry whose base *)
(* name equals the tool name, download fails with "binary not found in     *)
(* archive", an error of its own, no file is created at destPath and the   *)
(* archive at destPath.tmp is removed.                                     *)
OtherArchives == {es \in EntryLists : \A i \in DOMAIN es : es[i].name # NameTool}

----------------------------------------------------------------------------
(* C22: cache operations are safe against every interleaving with one      *)
(* download, plain or archive: between the steps of the download and of    *)
(* the listings, launcher cache checks, CleanVersion and CleanAll of other *)
(* processes, a file is at destPath only when it holds the complete binary *)
(* that passed the checksum, so no listing reports and no launcher finds   *)
(* a partly written binary.                                                *)
DestPath == BinPath(DataDir(env, fsys), toolName, env.latest)

C22_NoPartialBinaryObservable ==
    /\ Exists(fsys, DestPath) => DataAt(fsys, inodes, DestPath) = ObserveBinary
    /\ \A i \in DOMAIN listing.versions : listing.versions[i].Size = Len(ObserveBinary)
    /\ proc[2].hit => proc[2].cached.data = ObserveBinary

----------------------------------------------------------------------------
(* C23: the version is resolved on every invocation of the launcher and of *)
(* Download, before any look at the cache, and its failure is fatal: the   *)
(* operation returns "failed to get version", looks up no binary, makes no *)
(* download, no chmod and no exec, and leaves the filesystem as it was,    *)
(* also when versions of the tool are cached. (An invocation that cannot   *)
(* determine the data directory has returned before.)                      *)
VersionFailed(p) ==
    /\ proc[p].pc = "done"
    /\ proc[p].err # Nil
    /\ proc[p].trace # <<>>
    /\ proc[p].trace[Len(proc[p].trace)] = "VersionFunc"

C23_AfterVersionFunc ==
    /\ proc[1].op \in {"Exec", "Download"} /\ proc[1].pc \notin {"DataDir", "VersionFunc"}
          => \/ proc[1].err = <<"failed to determine data directory">>
             \/ Did(1, "VersionFunc")
    /\ Before(1, "VersionFunc", "Exists")
    /\ VersionFailed(1)
          => /\ proc[1].err = <<"failed to get version">>
             /\ proc[1].trace = <<"DataDir", "VersionFunc">>
             /\ ~proc[1].hit
             /\ proc[1].execd = NoExec

\* the steps up to the answer of the version strategy leave the disk alone
C23_NothingChanged ==
    proc[1].pc \in {"idle", "DataDir", "VersionFunc"} => UNCHANGED <<fsys, inodes>>

C23_VersionFailureIsFatal == []C23_AfterVersionFunc /\ [][C23_NothingChanged]_vars

C23_Witness ==
    /\ VersionFailed(1)
    /\ hist.ok
    /\ Exists(fsys, BinPath(DataDir(env, fsys), toolName, env.latest))

----------------------------------------------------------------------------
(* C24: when the binary URL answers with a status other than 200, download *)
(* returns an error that contains the status code, and neither             *)
(* destPath.tmp nor destPath is created: the status is looked at before    *)
(* the temp file is opened.                                                *)
C24_BinaryStatusChecked ==
    /\ Did(1, "Create") => proc[1].status = StatusOK
    /\ proc[1].status \notin {0, StatusOK}
          => /\ proc[1].pc = "done"
             /\ proc[1].status = 404 => proc[1].ret = <<"unexpected status code: 404">>
             /\ proc[1].status = 500 => proc[1].ret = <<"unexpected status code: 500">>
             /\ proc[1].err = <<"failed to download">> \o proc[1].ret
             /\ proc[1].trace[Len(proc[1].trace)] = "GET"
             /\ ~Did(1, "Create")
             /\ Absent(fsys, tmpFile(1))
             /\ Absent(fsys, proc[1].binPath)

C24_Witness ==
    /\ proc[1].status = 500
    /\ proc[1].ret = <<"unexpected status code: 500">>
    /\ proc[1].expected # <<>>
    /\ IsDir(fsys, Dir(proc[1].binPath))

----------------------------------------------------------------------------
----------------------------------------------------------------------------
(* C26: after Download returns without error the binary of the resolved    *)
(* version exists at <dataDir>/kdev/<tool>/<version>/<tool> with mode      *)
(* 0755, whether it was downloaded by this call or found in the cache.     *)
DownloadSucceeded(p) ==
    /\ proc[p].op = "Download"
    /\ proc[p].pc = "done"
    /\ proc[p].err = Nil

C26_DownloadLeavesExecutable ==
    DownloadSucceeded(1)
    => /\ proc[1].binPath = BinPath(DataDir(env, fsys), toolName, proc[1].version)
       /\ Exists(fsys, proc[1].binPath)
       /\ ModeAt(fsys, inodes, proc[1].binPath) = Mode0755

----------------------------------------------------------------------------
(* C27: the stream is read through a progress reader exactly when a        *)
(* progress sink is configured and the content length is greater than      *)
(* zero. Then every update of a read tells a percentage that has just      *)
(* crossed a 5% threshold, no threshold is told twice and none that was    *)
(* crossed is left untold; and when the copy ends without error a final    *)
(* 100% update is written before the response stream is closed. Without    *)
(* the progress reader nothing is written.                                 *)
Transferring == cmd.op = "transfer" /\ cmd.pc # "wrap"

\* the updates the reads have written, the one of Finish left out
ReadUpdates ==
    IF cmd.pc \in {"closeBody", "closed"} /\ ~cmd.failed /\ cmd.wrapped
    THEN SubSeq(cmd.printed, 1, Len(cmd.printed) - 1)
    ELSE cmd.printed

----------------------------------------------------------------------------
(* C28: between operations, every regular file at                          *)
(* <dataDir>/kdev/<tool>/<version>/<tool> holds the complete output of a   *)
(* download whose checksum was verified; a download that fails creates no  *)
(* cache entry; and a launcher run never takes a partial binary for a      *)
(* cache hit.                                                              *)

\* what upstream serves under a checksum that verifies it
VerifiedContents ==
    {c \in env.serves :
        \E body \in env.sums : checksumMatches(Sha256Hex(c), fetchChecksum(body))}

\* the binaries complete verified downloads produce
CompleteOutputs ==
    IF HasSuffixTarGz(DownloadURL(toolName, env.latest, GOOS, GOARCH))
    THEN {ReadArchive(c).data :
            c \in {a \in VerifiedContents :
                      ReadArchive(a).res = "found" /\ ~ReadArchive(a).short}}
    ELSE VerifiedContents

BetweenOperations == proc[1].pc \in {"idle", "done", "replaced"}

C28_CacheHoldsOnlyVerifiedBinaries ==
    /\ ( BetweenOperations /\ ~DataDirErr(env, fsys) /\ Exists(fsys, DestPath) )
          => DataAt(fsys, inodes, DestPath) \in CompleteOutputs
    /\ ( DownloadReturned(1) /\ proc[1].ret # Nil ) => ~Exists(fsys, proc[1].binPath)
    /\ proc[1].hit => proc[1].cached.data \in CompleteOutputs

----------------------------------------------------------------------------
(* C29: a version directory without the binary is a cache miss and no      *)
(* error. The listing leaves it out; the launcher and Download go on to    *)
(* download, into that directory, and when nothing fails under the         *)
(* download it succeeds and the binary is there.                           *)
C29_EmptyVersionDirIsMiss ==
    /\ IsDir(fsys, Dir(DestPath))
    /\ ( listing.called /\ ~Exists(fsys, DestPath) )
          => listing.err = Nil /\ listing.versions = <<>>
    /\ ( proc[1].trace # <<>> /\ proc[1].trace[Len(proc[1].trace)] = "Exists"
         /\ ~Exists(fsys, DestPath) )
          => /\ proc[1].pc \in {"writeDownloading", "MkdirAll"}
             /\ proc[1].err = Nil
             /\ ~proc[1].hit
             /\ proc[1].binPath = DestPath
    /\ proc[1].hit => Exists(fsys, DestPath)
    /\ DownloadReturned(1)
          => /\ proc[1].ret = Nil \/ proc[1].ret \in EnvFaults
             /\ proc[1].ret = Nil
                   => /\ Exists(fsys, DestPath)
                      /\ DataAt(fsys, inodes, DestPath) = ObserveBinary

C29_Witness ==
    /\ listing.called
    /\ listing.versions = <<>>
    /\ hist = NoHist
    /\ DownloadReturned(1)
    /\ proc[1].ret = Nil
    /\ Exists(fsys, DestPath)

----------------------------------------------------------------------------
(* C30: a temp file left at destPath.tmp does not disturb a download.      *)
(* fs.Create empties it; a download that fails fails for the network or    *)
(* the disk; one that succeeds, at once or when repeated after a failure,  *)
(* leaves exactly the binary served at destPath and no temp file.          *)
C30_LeftoverTempHarmless ==
    /\ ( proc[1].pc = "Copy" /\ proc[1].off = 0 )
          => /\ Exists(fsys, tmpFile(1))
             /\ DataAt(fsys, inodes, tmpFile(1)) = <<>>
    /\ DownloadReturned(1)
          => /\ proc[1].ret = Nil \/ proc[1].ret \in EnvFaults
             /\ proc[1].ret = Nil
                   => /\ Exists(fsys, DestPath)
                      /\ DataAt(fsys, inodes, DestPath) = ObserveBinary
                      /\ Absent(fsys, tmpFile(1))

C30_Witness ==
    /\ toolName = "kubectl"
    /\ hist # NoHist
    /\ ~hist.ok
    /\ hist.gets = 1
    /\ DownloadReturned(1)
    /\ proc[1].ret = Nil
    /\ DataAt(fsys, inodes, DestPath) = ObserveBinary
    /\ Absent(fsys, tmpFile(1))

----------------------------------------------------------------------------
(* C31: when the binary of a version disappears between the existence      *)
(* check and the Stat inside CachedVersions, that version is left out, all *)
(* other versions are returned, in descending order and with their sizes,  *)
(* and no error is returned. C31_SkipsVanished is the part of it that     *)
(* does not speak of the order.                                            *)
StatVanished(n) ==
    /\ Exists(cmd.fs0, Join(ToolDir(env, cmd.fs0, toolName), <<n, toolName>>))
    /\ ~Exists(fsys, Join(ToolDir(env, fsys, toolName), <<n, toolName>>))

StatListed == {listing.versions[i].Version : i \in DOMAIN listing.versions}

C31_SkipsVanished ==
    listing.called
    => /\ listing.err = Nil
       /\ \A n \in StatNames :
             n \in StatListed
                <=> Exists(fsys, Join(ToolDir(env, fsys, toolName), <<n, toolName>>))
       /\ \A i \in DOMAIN listing.versions :
             /\ listing.versions[i].Size = Len(DataAt(fsys, inodes, listing.versions[i].Path))
             /\ \A j \in DOMAIN listing.versions :
                   i # j => listing.versions[i].Version # listing.versions[j].Version

C31_Witness ==
    /\ listing.called
    /\ StatVanished("v1.2.3")
    /\ StatListed = {"v1.2.10", "latest"}

\* as claimed: the versions that stay are in descending order
C31_SkipsVanishedDescending ==
    ( listing.called /\ \E n \in StatNames : StatVanished(n) )
    => /\ listing.err = Nil
       /\ \A n \in StatNames : StatVanished(n) => n \notin StatListed
       /\ \A i, j \in DOMAIN listing.versions :
             i < j => ~Smaller(listing.versions[i].Version, listing.versions[j].Version)

----------------------------------------------------------------------------
(* C32: "tools update" goes through the selected tools in order. For a     *)
(* tool whose cache holds the version LatestVersion returned it writes an  *)
(* "already cached" line, downloads nothing and leaves the filesystem as   *)
(* it was; for any other tool it runs Download; the first error ends the   *)
(* command.                                                                *)
Updating == cmd.op = "update"

\* the cache of the entry's tool held the latest version when its turn came
HadLatest(r) == Exists(r.before, BinPath(DataDir(env, r.before), r.tool, r.latest))

AlreadyCachedLines == {i \in DOMAIN cmd.log : cmd.log[i].did = "already cached"}

C32_UpdateOnlyMissing ==
    Updating
    => /\ \A k \in DOMAIN cmd.log :
             LET r == cmd.log[k]
             IN /\ r.tool = cmd.tools[k]
                /\ r.latest # "" /\ HadLatest(r)
                      => /\ r.did \in {"already cached", "write"}
                         /\ r.after = r.before
                /\ r.latest # "" /\ ~HadLatest(r) => r.did = "Download"
                /\ r.latest = "" => r.err # Nil /\ r.after = r.before
                /\ r.err # Nil => k = Len(cmd.log) /\ cmd.pc = "returned" /\ cmd.err = r.err
       /\ Len(cmd.printed) = Cardinality(AlreadyCachedLines)
       /\ \A i \in DOMAIN cmd.printed :
             \E k \in AlreadyCachedLines :
                /\ cmd.printed[i].tool = cmd.log[k].tool
                /\ cmd.printed[i].version = cmd.log[k].latest
       /\ cmd.pc # "Download" => proc[1] = IdleProc
       /\ cmd.pc = "write" => fsys = cmd.before
       /\ ( cmd.pc = "returned" /\ cmd.err = Nil ) => Len(cmd.log) = Len(cmd.tools)
       /\ cmd.err # Nil => cmd.pc = "returned" /\ cmd.log[Len(cmd.log)].err = cmd.err

C32_Witness ==
    /\ Updating
    /\ cmd.pc = "returned"
    /\ cmd.err = Nil
    /\ Len(cmd.log) = 2
    /\ cmd.log[1].did = "already cached"
    /\ cmd.log[2].did = "Download"
    /\ cmd.log[2].after # cmd.log[2].before

----------------------------------------------------------------------------
(* C33: after "tools update" has gone through a tool without error, the    *)
(* version LatestVersion returned at the start of the tool's iteration is  *)
(* in the cache, also when upstream publishes a newer version meanwhile.   *)
C33_CheckedVersionIsCached ==
    Updating
    => \A k \in DOMAIN cmd.log :
          cmd.log[k].err = Nil
             => Exists(cmd.log[k].after,
                       BinPath(DataDir(env, cmd.log[k].after), cmd.log[k].tool, cmd.log[k].latest))

----------------------------------------------------------------------------
(* C34: the space "tools clean" reports is the sum of the sizes of exactly  *)
(* the cache entries it removed, over all selected tools: every entry      *)
(* without --old, every entry but the first listed with --old. The         *)
(* "Reclaimed" line is written exactly when that sum is positive.          *)
RemovedEntries(t) ==
    SelectSeq(ListedBefore(t),
              LAMBDA v : \A j \in DOMAIN ListedAfter(t) :
                            ListedAfter(t)[j].Version # v.Version)

RemovedBytes(t) ==
    LET RECURSIVE upTo(_)
        upTo(i) == IF i = 0 THEN 0 ELSE RemovedEntries(t)[i].Size + upTo(i - 1)
    IN upTo(Len(RemovedEntries(t)))

RECURSIVE RemovedTotal(_)
RemovedTotal(S) ==
    IF S = {} THEN 0
    ELSE LET t == CHOOSE t \in S : TRUE
         IN RemovedBytes(t) + RemovedTotal(S \ {t})

ReportedBytes == IF cmd.printed = <<>> THEN 0 ELSE cmd.printed[1].bytes

C34_ReclaimedIsSumOfRemoved ==
    ( cmd.op = "runToolsClean" /\ cmd.err = Nil )
    => /\ \A t \in Selected :
            RemovedEntries(t) = IF cmd.old /\ ListedBefore(t) # <<>>
                                THEN Tail(ListedBefore(t)) ELSE ListedBefore(t)
       /\ Len(cmd.printed) <= 1
       /\ ReportedBytes = RemovedTotal(Selected)
       /\ cmd.printed # <<>> <=> RemovedTotal(Selected) > 0
       /\ \A i \in DOMAIN cmd.printed : cmd.printed[i].msg = "Reclaimed"

C34_Witness ==
    /\ cmd.op = "runToolsClean"
    /\ ~cmd.old
    /\ cmd.err = Nil
    /\ Selected = {"kubectl", "kind"}
    /\ Len(RemovedEntries("kubectl")) >= 2
    /\ Len(RemovedEntries("kind")) >= 1
    /\ cmd.printed # <<>>
    /\ ReportedBytes = RemovedTotal(Selected)
    /\ ReportedBytes > RemovedBytes("kubectl")

C34_WitnessOld ==
    /\ cmd.op = "runToolsClean"
    /\ cmd.old
    /\ cmd.err = Nil
    /\ \E t \in Selected : Len(RemovedEntries(t)) >= 2
    /\ ReportedBytes > 0

----------------------------------------------------------------------------
(* C35: compareVersions is a consistent ordering on arbitrary version      *)
(* strings, names that parse as semantic versions and names that do not    *)
(* mixed: the sign of compare(a, b) is the opposite of the sign of         *)
(* compare(b, a), compare(a, b) > 0 and compare(b, c) > 0 imply            *)
(* compare(a, c) > 0, and so the entry at index 0 of a listing is greater  *)
(* than or equal to every other entry. C35_Antisymmetric is the first of   *)
(* the three on its own.                                                   *)
Sign(x) == IF x > 0 THEN 1 ELSE IF x < 0 THEN -1 ELSE 0

Compared == cmd.op = "compareVersions"

C35_Antisymmetric ==
    Compared => Sign(cmd.out.ab) = -Sign(cmd.out.ba)

C35_AntisymmetricWitness ==
    /\ Compared
    /\ NewVersionErr(cmd.args[1]) # NewVersionErr(cmd.args[2])
    /\ cmd.out.ab > 0
    /\ cmd.out.ba < 0

C35_ConsistentOrdering ==
    /\ Compared
          => /\ Sign(cmd.out.ab) = -Sign(cmd.out.ba)
             /\ ( cmd.out.ab > 0 /\ cmd.out.bc > 0 ) => cmd.out.ac > 0
    /\ listing.called
          => \A i \in DOMAIN listing.versions :
                compareVersions(listing.versions[1].Version,
                                listing.versions[i].Version) >= 0

----------------------------------------------------------------------------
(* C36: listing is read-only. CachedVersions and "tools info" make no      *)
(* network request and leave the filesystem, the cache directory included, *)
(* as it was, for every cache content, the absent cache and an unknown     *)
(* tool name included.                                                     *)
C36_ListingIsReadOnly ==
    [][fsys' = fsys /\ inodes' = inodes /\ hist' = hist /\ proc' = proc]_vars

C36_Witness ==
    /\ cmd.op = "runToolsInfo"
    /\ cmd.err = Nil
    /\ Selected = {"kubectl", "kind"}
    /\ Len(ListedBefore("kubectl")) >= 2
    /\ Len(cmd.printed) >= 4
    /\ listing.called
    /\ Len(listing.versions) >= 2
    /\ fsys = cmd.fs0
    /\ hist = NoHist

C36_WitnessAbsent ==
    /\ cmd.op = "runToolsInfo"
    /\ cmd.err = Nil
    /\ cmd.args = <<>>
    /\ ~DataDirErr(env, fsys)
    /\ Absent(fsys, ToolDir(env, fsys, "kubectl"))
    /\ Len(cmd.printed) = 2

C36_WitnessUnknown ==
    /\ cmd.op = "runToolsInfo"
    /\ cmd.args = <<"helm">>
    /\ cmd.err = Nil
    /\ cmd.printed = <<>>
    /\ fsys = cmd.fs0

----------------------------------------------------------------------------
(* C37: resolveTools returns all registered tools, sorted by name, when no *)
(* name is given, and otherwise the tools of exactly the registered names  *)
(* among those given, in the order given, unknown names being skipped      *)
(* without an error. "tools info" prints its lines for those tools in that *)
(* order, and a command given only unknown names does nothing and prints   *)
(* nothing.                                                                *)
KnownNames(names) == SelectSeq(names, LAMBDA n : n \in Registered)

OnlyUnknown(names) == names # <<>> /\ KnownNames(names) = <<>>

RECURSIVE InfoLineTools(_)
InfoLineTools(names) ==
    IF names = <<>> THEN <<>>
    ELSE LET n == Len(ListedBefore(names[1]))
         IN [i \in 1..(IF n = 0 THEN 1 ELSE n) |-> names[1]] \o InfoLineTools(Tail(names))

PrintedTools ==
    LET lines == SelectSeq(cmd.printed, LAMBDA l : l.msg # "cache size")
    IN [i \in DOMAIN lines |-> lines[i].tool]

C37_WitnessOrder ==
    /\ cmd.op = "runToolsInfo"
    /\ cmd.err = Nil
    /\ cmd.args = <<"kubectl", "kind">>
    /\ Len(PrintedTools) >= 4
    /\ PrintedTools[1] = "kubectl"

C37_WitnessUnknown ==
    /\ cmd.op = "runToolsClean"
    /\ cmd.args = <<"helm", "cilium">>
    /\ ~cmd.old
    /\ Len(ListedBefore("kubectl")) >= 2
    /\ fsys = cmd.fs0

----------------------------------------------------------------------------
(* C38: FormatBytes and formatBytes return a string for every count n with *)
(* 0 <= n < 2^63: "n B" when n < 1024, and otherwise the k-th of KiB, MiB, *)
(* GiB, TiB with 1024^k <= n < 1024^(k+1), the index of the unit never     *)
(* leaving the table of four. A count of k + 1 digits in base 1024 is one  *)
(* with 1024^k <= n < 1024^(k+1). C38_BelowPiB is the same for the counts  *)
(* below 1024^5.                                                           *)
Formatted == cmd.op \in {"formatBytes", "FormatBytes"}

FormatsAsClaimed ==
    /\ cmd.err = Nil
    /\ cmd.out.bytes = cmd.args
    /\ Len(cmd.args) <= 1 => cmd.out.unit = "B" /\ cmd.out.div = <<1>>
    /\ Len(cmd.args) >= 2
          => /\ Len(cmd.args) - 1 \in 1..4
             /\ cmd.out.unit = <<"KiB", "MiB", "GiB", "TiB">>[Len(cmd.args) - 1]
             /\ cmd.out.div = [i \in 1..Len(cmd.args) |-> IF i = Len(cmd.args) THEN 1 ELSE 0]

C38_BelowPiB ==
    ( Formatted /\ Len(cmd.args) <= 5 ) => FormatsAsClaimed

C38_BelowPiBWitness ==
    /\ cmd.op = "formatBytes"
    /\ Len(cmd.args) = 5
    /\ cmd.out.unit = "TiB"

C38_FormatBytesTotal ==
    Formatted => FormatsAsClaimed

============================================================================
